---- MODULE Spec2Model ----
(***************************************************************************)
(* Model of packrat's backup manager (pkg/backup/backup.go) and of the     *)
(* restore command (cmd/packrat/restore.go).                               *)
(*                                                                         *)
(* A service name is the sequence of its dash-separated tokens: "app-db"   *)
(* is <<"app","db">>. The artifact "app-db-<timestamp>.enc" is the record  *)
(* [svc |-> <<"app","db">>, ts |-> t], so that the string prefix test of   *)
(* List(name + "-") is the sequence prefix test HasPrefix below.           *)
(***************************************************************************)
EXTENDS Integers, Sequences, FiniteSets, TLC

VARIABLES
    synology,      \* Manager.Synology: remote name -> [data, mtime]
    s3,            \* Manager.S3:       remote name -> [data, mtime]
    s3Configured,  \* Manager.S3 != nil
    synologyPath,  \* SynologyConfig.Path
    pwd,           \* the working directory of the SFTP session (Getwd)
    ctr,           \* container runtime: state of the bound container
    health,        \* container runtime: State.Health.Status ("none": no health check)
    fs,            \* content found under each service path
    now,           \* wall clock, in seconds
    pc,            \* position of the running operation
    opKind,        \* "none" | "backup" | "restore" | "cleanup"
    svcName,       \* serviceName argument of the running operation
    backupName,    \* backupName (argument of RestoreBackup, local of CreateBackup)
    archiveData,   \* CreateBackup: archiveData / RestoreBackup: decrypted
    encrypted,     \* encrypted bytes held in memory
    localFile,     \* content of the staging file in tmpDir
    deferStart,    \* the deferred handleDockerContainer(.., false) is registered
    quiesced,      \* history: handleDockerContainer(.., true) returned nil in this operation
    err,           \* error the operation is about to return ("nil": none)
    result,        \* what the last finished operation returned
    handlerErr,    \* what the last handleDockerContainer call returned
    selected,      \* restore command: selectedBackup (name and source column)
    source,        \* history: backend whose Download filled the staging file
    fsBefore,      \* history: fs when the running operation started
    retainGlobal,  \* config.Backup.RetainBackups
    retainService, \* config.Service.RetainBackups per service (Unset: nil)
    oldRetention,  \* history: the retention settings before the configuration was edited
    todo,          \* CleanupBackups: services the range loop has not visited yet
    cur,           \* CleanupBackups: name, the service being cleaned
    retainCount,   \* CleanupBackups: retainCount of the service being cleaned
    queue,         \* CleanupBackups: backups[retainCount:] still to delete
    deletedCount,  \* CleanupBackups: deletedCount of the running delete loop
    deletedCounts, \* CleanupBackups: the map that is returned
    listed,        \* history: what List returned per (service, backend) in this run
    exclude,       \* config.Service.Exclude per service
    excludePatterns, \* createArchive: the excludePatterns it filters with
    destTree,      \* what extractArchive has written under its destPath
    cryptoLog,     \* history: the calls of package crypto, with what they returned
    daemon,        \* Daemon and the daemon command: the cron job, Run, the deferred Close
    workers,       \* operations that run at the same time: position and service of each
    lastInspect,   \* history: what the latest ContainerInspect of the running handler call returned
    cancelled,     \* Daemon.cancel() was called (d.ctx is done)
    calls,         \* requests issued by the running operation, in order
    ops            \* number of operations started so far

vars == <<synology, s3, s3Configured, synologyPath, pwd, ctr, health, fs, now, pc, opKind, svcName,
          backupName, archiveData, encrypted, localFile, deferStart, quiesced, err,
          result, handlerErr, selected, source, fsBefore, retainGlobal,
          retainService, oldRetention, todo, cur, retainCount, queue, deletedCount, deletedCounts,
          listed, exclude, excludePatterns, destTree, cryptoLog, daemon, workers,
          lastInspect, cancelled,
          calls, ops>>

----------------------------------------------------------------------------
\* Bounds of the model.
MaxOps == 2
MaxTime == 2
MaxNonce == 1

----------------------------------------------------------------------------
\* Configuration (config.Config): two services whose names collide on the
\* "app-" prefix, one bound to a container and with a pre-backup command.
Services == {<<"app">>, <<"app", "db">>}
ServiceNames == Services \cup {<<"web">>}

Docker(s) == IF s = <<"app">> THEN "c1" ELSE "none"
PreBackup(s) == s = <<"app">>

Contents == {"v1", "v2"}
Key == "K"
OtherKey == "K2"

----------------------------------------------------------------------------
\* No artifact name yet.
NoName == [svc |-> <<>>, ts |-> 0]

\* No row of the restore command's list selected.
NoSelection == [name |-> NoName, source |-> "none"]

\* No bytes: a buffer not filled yet, a file that does not exist.
NoData == [none |-> TRUE]

\* crypto.Encrypt / crypto.Decrypt: the sealed value remembers the key and the
\* nonce; it opens only under the same key and when it was not altered.
Encrypt(key, plaintext, nonce) ==
    [nonce |-> nonce, key |-> key, pt |-> plaintext, intact |-> TRUE]

IsCiphertext(d) == DOMAIN d = {"nonce", "key", "pt", "intact"}

Decrypt(key, ciphertext) ==
    IF IsCiphertext(ciphertext) /\ ciphertext.intact /\ ciphertext.key = key
    THEN [ok |-> TRUE, pt |-> ciphertext.pt]
    ELSE [ok |-> FALSE, pt |-> NoData]

\* createArchive: the archive of a tree.
Archive(content) == [tree |-> content]

\* fmt.Sprintf("%s-%s.enc", serviceName, timestamp)
BackupNameOf(s, t) == [svc |-> s, ts |-> t]


\* strings.HasPrefix(name, service + "-")
HasPrefix(name, s) ==
    /\ Len(name.svc) >= Len(s)
    /\ SubSeq(name.svc, 1, Len(s)) = s

\* BackupFile.ModTime: t.UTC().Format("2006-01-02 15:04:05 UTC")
FormatTime(t) == [parsable |-> TRUE, sec |-> t]

\* A ModTime string that is not in that layout.
BadTime == [parsable |-> FALSE, sec |-> 0]

\* parseBackupTime: the zero time when the string does not parse.
parseBackupTime(timeStr) == IF timeStr.parsable THEN timeStr.sec ELSE 0

\* time.Time.After
After(t, u) == t > u

\* sort.Slice(backups, func(i, j) { return timeI.After(timeJ) }): the sort is
\* not stable, so files with equal times come out in any order.
Perms(S) ==
    {f \in [1..Cardinality(S) -> S] : \A i, j \in DOMAIN f : i # j => f[i] # f[j]}

SortNewestFirst(S) ==
    {f \in Perms(S) :
        \A i, j \in DOMAIN f :
            i < j => ~After(parseBackupTime(f[j].mtime), parseBackupTime(f[i].mtime))}

\* Storage.List(prefix) on a backend: the files whose name has the prefix.
List(backend, s) ==
    {[name |-> n, mtime |-> backend[n].mtime] : n \in {x \in DOMAIN backend : HasPrefix(x, s)}}

\* map assignment m[k] = v
Put(m, k, v) == [x \in DOMAIN m \cup {k} |-> IF x = k THEN v ELSE m[x]]

\* delete(m, k)
Remove(m, k) == [x \in DOMAIN m \ {k} |-> m[x]]

Call(c, target, ok) == [call |-> c, target |-> target, ok |-> ok]

\* A Delete request with the artifact it names and the error it returned:
\* "nil", "not_found" or "other".
DeleteCall(target, name, e) ==
    [call |-> "Delete", target |-> target, ok |-> e = "nil", name |-> name, err |-> e]

----------------------------------------------------------------------------
EmptyMap == [x \in {} |-> 0]

Locals == <<svcName, backupName, archiveData, encrypted, localFile>>
RestoreLocals == <<selected, source, fsBefore>>
Retention == <<retainGlobal, retainService, oldRetention>>
CleanupLocals == <<Retention, todo, cur, retainCount, queue, deletedCount,
                   deletedCounts, listed>>
Sftp == <<synologyPath, pwd>>
Backends == <<synology, s3, s3Configured, Sftp>>
Runtime == <<ctr, health>>
Lifecycle == <<lastInspect, cancelled>>
Units == <<exclude, excludePatterns, destTree, cryptoLog, daemon, workers>>

\* Variant of Exit: the container is restarted on the success path only.
Exit_OnlyOnSuccess(e) ==
    /\ err' = e
    /\ pc' = IF deferStart /\ e = "nil" THEN "h_start_req" ELSE "finish"

\* A return statement: the deferred handleDockerContainer(.., false) runs
\* first when it was registered, then the deferred os.RemoveAll(tmpDir).
Exit(e) ==
    /\ err' = e
    /\ pc' = IF deferStart THEN "h_start_req" ELSE "finish"

Issue(c) == calls' = Append(calls, c)

----------------------------------------------------------------------------
\* Container runtime (Docker daemon), as seen through ContainerInspect.
Running == ctr \in {"running", "stopping"}
ExitCode == IF ctr = "exited" THEN 1 ELSE 0
HasHealth == health # "none"

\* The daemon completes a stop or a start it has accepted.
DockerProgress ==
    /\ pc \notin {"idle", "returned"}
    /\ \/ /\ ctr = "stopping"
          /\ ctr' = "stopped"
          /\ UNCHANGED health
       \/ /\ ctr = "starting"
          /\ ctr' \in {"running", "exited"}
          /\ UNCHANGED health
       \/ /\ ctr = "running"
          /\ health = "starting"
          /\ health' \in {"healthy", "unhealthy"}
          /\ UNCHANGED ctr
    /\ UNCHANGED <<Units, Lifecycle, Backends, fs, now, pc, opKind, Locals, deferStart, quiesced, err, result,
                   handlerErr, calls, ops, RestoreLocals, CleanupLocals>>

\* The clock is read when the artifact is named; a backend stamps an upload
\* with the second of that reading.  Time that passes elsewhere is seen as
\* ticks just before a reading.
ClockReaders == {"idle", "returned", "cb_stage"}

Tick ==
    /\ now < MaxTime
    /\ pc \in ClockReaders
    /\ now' = now + 1
    /\ UNCHANGED <<Units, Lifecycle, Backends, Runtime, fs, pc, opKind, Locals, deferStart, quiesced, err,
                   result, handlerErr, calls, ops, RestoreLocals, CleanupLocals>>

----------------------------------------------------------------------------
\* handleDockerContainer(containerName, stop = true)

\* No ContainerInspect has returned yet in this call.
NoInspect == [none |-> TRUE]

\* The loop at the current position has inspected before.
Polling == lastInspect # NoInspect /\ lastInspect.at = pc

\* What a ContainerInspect returned: an error, or the State of the container;
\* with it, whether the daemon's context was cancelled at that moment and at
\* the first inspection of the same loop.
Inspection(failed) ==
    [err |-> failed, at |-> pc, running |-> Running, exit |-> ExitCode,
     health |-> health, afterCancel |-> cancelled,
     startedCancelled |-> IF Polling THEN lastInspect.startedCancelled ELSE cancelled]

Inspect(failed) == lastInspect' = Inspection(failed)

\* Where the caller continues after a successful quiesce.
AfterQuiesce == IF opKind = "backup" THEN "cb_archive" ELSE "rb_extract"

\* Variant of QuiesceFailed: the start is deferred before the quiesce is
\* called, so it runs after a failed quiesce as well.
QuiesceFailed_StartDeferred(e) ==
    /\ handlerErr' = e
    /\ err' = e
    /\ pc' = "h_start_req"
    /\ UNCHANGED <<deferStart, quiesced>>

\* The caller's "if err != nil { return ... }" after a failed quiesce: the
\* deferred start is not registered yet.
QuiesceFailed(e) ==
    /\ handlerErr' = e
    /\ Exit(e)
    /\ UNCHANGED <<deferStart, quiesced>>

\* m.dockerCli.ContainerStop
H_StopRequest ==
    /\ pc = "h_stop_req"
    /\ lastInspect' = NoInspect
    /\ \/ /\ Issue(Call("ContainerStop", Docker(svcName), TRUE))
          /\ ctr' \in IF ctr \in {"running", "starting"}
                      THEN {"stopping", "stopped"} ELSE {ctr}
          /\ pc' = "h_stop_poll"
          /\ UNCHANGED <<err, handlerErr, deferStart, quiesced>>
       \/ /\ Issue(Call("ContainerStop", Docker(svcName), FALSE))
          /\ QuiesceFailed("stop_request")
          /\ UNCHANGED ctr
    /\ UNCHANGED <<Units, Backends, health, fs, now, opKind, Locals, result, ops, cancelled,
                   RestoreLocals, CleanupLocals>>

\* Variant of H_StopPoll: the first inspection that returns ends the wait.
H_StopPoll_NoWait ==
    /\ pc = "h_stop_poll"
    /\ \/ /\ QuiesceFailed("stop_timeout")
          /\ UNCHANGED lastInspect
       \/ /\ Inspect(TRUE)
          /\ QuiesceFailed("stop_inspect")
       \/ /\ Inspect(FALSE)
          /\ handlerErr' = "nil"
          /\ deferStart' = TRUE
          /\ quiesced' = TRUE
          /\ pc' = AfterQuiesce
          /\ UNCHANGED err
    /\ UNCHANGED <<Units, Backends, Runtime, fs, now, opKind, Locals, result, calls, ops,
                   cancelled, RestoreLocals, CleanupLocals>>

\* One iteration of the loop that waits for the container to stop: the
\* select takes the timer of time.After(2 * time.Minute) when it has fired
\* and inspects otherwise.
H_StopPoll ==
    /\ pc = "h_stop_poll"
    /\ \/ /\ QuiesceFailed("stop_timeout")
          /\ UNCHANGED lastInspect
       \/ /\ Inspect(TRUE)
          /\ QuiesceFailed("stop_inspect")
       \/ /\ Inspect(FALSE)
          /\ ~Running
          /\ handlerErr' = "nil"
          /\ deferStart' = TRUE
          /\ quiesced' = TRUE
          /\ pc' = AfterQuiesce
          /\ UNCHANGED err
       \/ /\ Inspect(FALSE)
          /\ Running
          /\ UNCHANGED <<pc, err, handlerErr, deferStart, quiesced>>
    /\ UNCHANGED <<Units, Backends, Runtime, fs, now, opKind, Locals, result, calls, ops,
                   cancelled, RestoreLocals, CleanupLocals>>

----------------------------------------------------------------------------
\* handleDockerContainer(containerName, stop = false), run as a deferred call:
\* its return value is dropped.
StartReturns(e) ==
    /\ handlerErr' = e
    /\ pc' = "finish"

\* m.dockerCli.ContainerStart
H_StartRequest ==
    /\ pc = "h_start_req"
    /\ lastInspect' = NoInspect
    /\ \/ /\ Issue(Call("ContainerStart", Docker(svcName), TRUE))
          /\ ctr' \in IF ctr \in {"stopped", "exited", "stopping"}
                      THEN {"starting", "running"} ELSE {ctr}
          /\ health' = IF HasHealth THEN "starting" ELSE health
          /\ pc' = "h_start_inspect"
          /\ UNCHANGED handlerErr
       \/ /\ Issue(Call("ContainerStart", Docker(svcName), FALSE))
          /\ StartReturns("start_request")
          /\ UNCHANGED Runtime
    /\ UNCHANGED <<Units, Backends, fs, now, opKind, Locals, deferStart, quiesced, err, result,
                   ops, cancelled, RestoreLocals, CleanupLocals>>

\* Variant of H_StartInspect: an inspection error is ignored.
H_StartInspect_ErrorIgnored ==
    /\ pc = "h_start_inspect"
    /\ \/ /\ Inspect(TRUE)
          /\ pc' = IF HasHealth THEN "h_health_poll" ELSE "h_run_poll"
          /\ UNCHANGED handlerErr
       \/ /\ Inspect(FALSE)
          /\ pc' = IF HasHealth THEN "h_health_poll" ELSE "h_run_poll"
          /\ UNCHANGED handlerErr
    /\ UNCHANGED <<Units, Backends, Runtime, fs, now, opKind, Locals, deferStart, quiesced, err,
                   result, calls, ops, cancelled, RestoreLocals, CleanupLocals>>

\* The ContainerInspect that reads whether a health check is declared.
H_StartInspect ==
    /\ pc = "h_start_inspect"
    /\ \/ /\ Inspect(TRUE)
          /\ StartReturns("start_inspect")
       \/ /\ Inspect(FALSE)
          /\ pc' = IF HasHealth THEN "h_health_poll" ELSE "h_run_poll"
          /\ UNCHANGED handlerErr
    /\ UNCHANGED <<Units, Backends, Runtime, fs, now, opKind, Locals, deferStart, quiesced, err,
                   result, calls, ops, cancelled, RestoreLocals, CleanupLocals>>

\* Variant of H_HealthPoll: a running container counts as started.
H_HealthPoll_RunningIsEnough ==
    /\ pc = "h_health_poll"
    /\ \/ /\ StartReturns("start_timeout")
          /\ UNCHANGED lastInspect
       \/ /\ Inspect(TRUE)
          /\ StartReturns("health_inspect")
       \/ /\ Inspect(FALSE)
          /\ health = "healthy" \/ Running
          /\ StartReturns("nil")
       \/ /\ Inspect(FALSE)
          /\ health = "unhealthy"
          /\ ~Running
          /\ StartReturns("unhealthy")
       \/ /\ Inspect(FALSE)
          /\ health \notin {"healthy", "unhealthy"}
          /\ ~Running
          /\ UNCHANGED <<pc, handlerErr>>
    /\ UNCHANGED <<Units, Backends, Runtime, fs, now, opKind, Locals, deferStart, quiesced, err,
                   result, calls, ops, cancelled, RestoreLocals, CleanupLocals>>

\* One iteration of the loop that waits for the health status.
H_HealthPoll ==
    /\ pc = "h_health_poll"
    /\ \/ /\ StartReturns("start_timeout")
          /\ UNCHANGED lastInspect
       \/ /\ Inspect(TRUE)
          /\ StartReturns("health_inspect")
       \/ /\ Inspect(FALSE)
          /\ health = "healthy"
          /\ StartReturns("nil")
       \/ /\ Inspect(FALSE)
          /\ health = "unhealthy"
          /\ StartReturns("unhealthy")
       \/ /\ Inspect(FALSE)
          /\ health \notin {"healthy", "unhealthy"}
          /\ UNCHANGED <<pc, handlerErr>>
    /\ UNCHANGED <<Units, Backends, Runtime, fs, now, opKind, Locals, deferStart, quiesced, err,
                   result, calls, ops, cancelled, RestoreLocals, CleanupLocals>>

\* Variant of H_RunPoll: the exit code is not looked at.
H_RunPoll_ExitIgnored ==
    /\ pc = "h_run_poll"
    /\ \/ /\ StartReturns("start_timeout")
          /\ UNCHANGED lastInspect
       \/ /\ Inspect(TRUE)
          /\ StartReturns("start_inspect")
       \/ /\ Inspect(FALSE)
          /\ Running \/ ExitCode # 0
          /\ StartReturns("nil")
       \/ /\ Inspect(FALSE)
          /\ ~Running
          /\ ExitCode = 0
          /\ UNCHANGED <<pc, handlerErr>>
    /\ UNCHANGED <<Units, Backends, Runtime, fs, now, opKind, Locals, deferStart, quiesced, err,
                   result, calls, ops, cancelled, RestoreLocals, CleanupLocals>>

\* Variant of H_RunPoll: the select has no timer case.
H_RunPoll_NoTimer ==
    /\ pc = "h_run_poll"
    /\ \/ /\ Inspect(TRUE)
          /\ StartReturns("start_inspect")
       \/ /\ Inspect(FALSE)
          /\ Running
          /\ StartReturns("nil")
       \/ /\ Inspect(FALSE)
          /\ ~Running
          /\ ExitCode # 0
          /\ StartReturns("start_exit_code")
       \/ /\ Inspect(FALSE)
          /\ ~Running
          /\ ExitCode = 0
          /\ UNCHANGED <<pc, handlerErr>>
    /\ UNCHANGED <<Units, Backends, Runtime, fs, now, opKind, Locals, deferStart, quiesced, err,
                   result, calls, ops, cancelled, RestoreLocals, CleanupLocals>>

\* One iteration of the loop that waits for the running flag.
H_RunPoll ==
    /\ pc = "h_run_poll"
    /\ \/ /\ StartReturns("start_timeout")
          /\ UNCHANGED lastInspect
       \/ /\ Inspect(TRUE)
          /\ StartReturns("start_inspect")
       \/ /\ Inspect(FALSE)
          /\ Running
          /\ StartReturns("nil")
       \/ /\ Inspect(FALSE)
          /\ ~Running
          /\ ExitCode # 0
          /\ StartReturns("start_exit_code")
       \/ /\ Inspect(FALSE)
          /\ ~Running
          /\ ExitCode = 0
          /\ UNCHANGED <<pc, handlerErr>>
    /\ UNCHANGED <<Units, Backends, Runtime, fs, now, opKind, Locals, deferStart, quiesced, err,
                   result, calls, ops, cancelled, RestoreLocals, CleanupLocals>>

\* Variant of Finish: an error of the deferred start replaces a nil result.
Finish_ResumeErrorReturned ==
    /\ pc = "finish"
    /\ localFile' = NoData
    /\ result' = IF err = "nil" /\ deferStart THEN handlerErr ELSE err
    /\ pc' = "returned"
    /\ lastInspect' = NoInspect
    /\ UNCHANGED <<Units, Backends, Runtime, fs, now, opKind, svcName, backupName,
                   archiveData, encrypted, deferStart, quiesced, err, handlerErr, calls,
                   ops, cancelled, RestoreLocals, CleanupLocals>>

\* The deferred os.RemoveAll(tmpDir), then the return to the caller.
Finish ==
    /\ pc = "finish"
    /\ localFile' = NoData
    /\ result' = err
    /\ pc' = "returned"
    /\ lastInspect' = NoInspect
    /\ UNCHANGED <<Units, Backends, Runtime, fs, now, opKind, svcName, backupName,
                   archiveData, encrypted, deferStart, quiesced, err, handlerErr, calls,
                   ops, cancelled, RestoreLocals, CleanupLocals>>

----------------------------------------------------------------------------
\* Manager.CreateBackup

\* A new operation starts once the previous one has returned.
CanStart ==
    /\ pc \in {"idle", "returned"}
    /\ ops < MaxOps
    /\ ~cancelled

\* Entry: the service lookup and os.MkdirAll(tmpDir).
CreateBackup(serviceName) ==
    /\ CanStart
    /\ ops' = ops + 1
    /\ opKind' = "backup"
    /\ svcName' = serviceName
    /\ calls' = <<>>
    /\ deferStart' = FALSE
    /\ quiesced' = FALSE
    /\ handlerErr' = "nil"
    /\ backupName' = NoName
    /\ archiveData' = NoData
    /\ encrypted' = NoData
    /\ localFile' = NoData
    /\ selected' = NoSelection
    /\ source' = "none"
    /\ fsBefore' = fs
    /\ \/ /\ serviceName \notin Services
          /\ result' = "service_not_found"
          /\ pc' = "returned"
          /\ err' = "service_not_found"
       \/ /\ serviceName \in Services
          /\ result' = "mkdir_tmp"
          /\ pc' = "returned"
          /\ err' = "mkdir_tmp"
       \/ /\ serviceName \in Services
          /\ result' = "pending"
          /\ pc' = "cb_pre"
          /\ err' = "nil"
    /\ UNCHANGED <<Units, Lifecycle, Backends, Runtime, fs, now, CleanupLocals>>

\* What executeCommand did: the command ran and ended with "ok",
\* "exit_nonzero" or "timeout" (the context deadline killed it).
ExecCall(target, outcome) ==
    [call |-> "Exec", target |-> target, ok |-> outcome = "ok", outcome |-> outcome]

\* The errors whose text holds the output CombinedOutput captured:
\* "command failed: %w\nOutput: %s".
OutputAttached(e) == e = "pre_backup"

\* Variant of CB_PreBackup: a failed command is logged and the backup goes on.
CB_PreBackup_ErrorIgnored ==
    /\ pc = "cb_pre"
    /\ \/ /\ PreBackup(svcName)
          /\ \E o \in {"ok", "exit_nonzero", "timeout"} : Issue(ExecCall(svcName, o))
          /\ pc' = "cb_docker"
          /\ UNCHANGED err
       \/ /\ PreBackup(svcName)
          /\ Issue(Call("ParseDuration", svcName, FALSE))
          /\ Exit("pre_backup_timeout_setting")
       \/ /\ ~PreBackup(svcName)
          /\ pc' = "cb_docker"
          /\ UNCHANGED <<err, calls>>
    /\ UNCHANGED <<Units, Lifecycle, Backends, Runtime, fs, now, opKind, Locals, deferStart, quiesced, result,
                   handlerErr, ops, RestoreLocals, CleanupLocals>>

\* executeCommand(service.PreBackup, service.Path) when a command is
\* configured: time.ParseDuration of a Timeout that is set, then the command
\* under that deadline.
CB_PreBackup ==
    /\ pc = "cb_pre"
    /\ \/ /\ PreBackup(svcName)
          /\ Issue(ExecCall(svcName, "ok"))
          /\ pc' = "cb_docker"
          /\ UNCHANGED err
       \/ /\ PreBackup(svcName)
          /\ \E o \in {"exit_nonzero", "timeout"} : Issue(ExecCall(svcName, o))
          /\ Exit("pre_backup")
       \/ /\ PreBackup(svcName)
          /\ Issue(Call("ParseDuration", svcName, FALSE))
          /\ Exit("pre_backup_timeout_setting")
       \/ /\ ~PreBackup(svcName)
          /\ pc' = "cb_docker"
          /\ UNCHANGED <<err, calls>>
    /\ UNCHANGED <<Units, Lifecycle, Backends, Runtime, fs, now, opKind, Locals, deferStart, quiesced, result,
                   handlerErr, ops, RestoreLocals, CleanupLocals>>

\* if service.Docker != nil { handleDockerContainer(.., true) }
CB_Docker ==
    /\ pc = "cb_docker"
    /\ pc' = IF Docker(svcName) # "none" THEN "h_stop_req" ELSE "cb_archive"
    /\ UNCHANGED <<Units, Lifecycle, Backends, Runtime, fs, now, opKind, Locals, deferStart, quiesced, err,
                   result, handlerErr, calls, ops, RestoreLocals, CleanupLocals>>

\* m.createArchive(service.Path, archiveData)
CB_Archive ==
    /\ pc = "cb_archive"
    /\ \/ /\ archiveData' = Archive(fs[svcName])
          /\ pc' = "cb_encrypt"
          /\ UNCHANGED err
       \/ /\ Exit("archive")
          /\ UNCHANGED archiveData
    /\ UNCHANGED <<Units, Lifecycle, Backends, Runtime, fs, now, opKind, svcName, backupName,
                   encrypted, localFile, deferStart, quiesced, result, handlerErr, calls, ops, RestoreLocals, CleanupLocals>>

\* crypto.Encrypt(m.key, archiveData.Bytes())
CB_Encrypt ==
    /\ pc = "cb_encrypt"
    /\ \/ /\ \E nonce \in 1..MaxNonce :
                encrypted' = Encrypt(Key, archiveData, nonce)
          /\ pc' = "cb_stage"
          /\ UNCHANGED err
       \/ /\ Exit("encrypt")
          /\ UNCHANGED encrypted
    /\ UNCHANGED <<Units, Lifecycle, Backends, Runtime, fs, now, opKind, svcName, backupName,
                   archiveData, localFile, deferStart, quiesced, result, handlerErr, calls, ops, RestoreLocals, CleanupLocals>>

\* Variant of CB_Stage: the archive is staged without encryption.
CB_Stage_Plain ==
    /\ pc = "cb_stage"
    /\ backupName' = BackupNameOf(svcName, now)
    /\ \/ /\ localFile' = archiveData
          /\ pc' = "cb_upload_synology"
          /\ UNCHANGED err
       \/ /\ Exit("stage")
          /\ UNCHANGED localFile
    /\ UNCHANGED <<Units, Lifecycle, Backends, Runtime, fs, now, opKind, svcName, archiveData,
                   encrypted, deferStart, quiesced, result, handlerErr, calls, ops, RestoreLocals, CleanupLocals>>

\* The artifact name from the clock, then os.WriteFile(localPath, encrypted).
CB_Stage ==
    /\ pc = "cb_stage"
    /\ backupName' = BackupNameOf(svcName, now)
    /\ \/ /\ localFile' = encrypted
          /\ pc' = "cb_upload_synology"
          /\ UNCHANGED err
       \/ /\ Exit("stage")
          /\ UNCHANGED localFile
    /\ UNCHANGED <<Units, Lifecycle, Backends, Runtime, fs, now, opKind, svcName, archiveData,
                   encrypted, deferStart, quiesced, result, handlerErr, calls, ops, RestoreLocals, CleanupLocals>>

\* What a backend stores for an uploaded file.
Stored(data) == [data |-> data, mtime |-> FormatTime(now)]

\* What an SFTP upload that broke off leaves behind: nothing new, or a
\* truncated file under the remote name.
Truncated(data) == IF IsCiphertext(data) THEN [data EXCEPT !.intact = FALSE] ELSE data

\* Variant of CB_UploadSynology: a failed primary upload does not stop the run.
CB_UploadSynology_Continue ==
    /\ pc = "cb_upload_synology"
    /\ \/ /\ Issue(Call("Upload", "synology", TRUE))
          /\ synology' = Put(synology, backupName, Stored(localFile))
       \/ /\ Issue(Call("Upload", "synology", FALSE))
          /\ UNCHANGED synology
    /\ pc' = "cb_upload_s3"
    /\ UNCHANGED <<Units, Lifecycle, s3, s3Configured, Sftp, Runtime, fs, now, opKind, Locals, deferStart,
                   quiesced, err, result, handlerErr, ops, RestoreLocals, CleanupLocals>>

\* m.Synology.Upload(localPath, backupName)
CB_UploadSynology ==
    /\ pc = "cb_upload_synology"
    /\ \/ /\ Issue(Call("Upload", "synology", TRUE))
          /\ synology' = Put(synology, backupName, Stored(localFile))
          /\ pc' = "cb_upload_s3"
          /\ UNCHANGED err
       \/ /\ Issue(Call("Upload", "synology", FALSE))
          /\ synology' \in {synology, Put(synology, backupName, Stored(Truncated(localFile)))}
          /\ Exit("upload_synology")
    /\ UNCHANGED <<Units, Lifecycle, s3, s3Configured, Sftp, Runtime, fs, now, opKind, Locals, deferStart, quiesced,
                   result, handlerErr, ops, RestoreLocals, CleanupLocals>>

\* Variant of CB_UploadS3: a failed secondary upload removes the primary copy.
CB_UploadS3_Rollback ==
    /\ pc = "cb_upload_s3"
    /\ \/ /\ s3Configured
          /\ Issue(Call("Upload", "s3", TRUE))
          /\ s3' = Put(s3, backupName, Stored(localFile))
          /\ Exit("nil")
          /\ UNCHANGED synology
       \/ /\ s3Configured
          /\ calls' = calls \o <<Call("Upload", "s3", FALSE),
                                 Call("Delete", "synology", TRUE)>>
          /\ synology' = Remove(synology, backupName)
          /\ Exit("upload_s3")
          /\ UNCHANGED s3
       \/ /\ ~s3Configured
          /\ Exit("nil")
          /\ UNCHANGED <<synology, s3, calls>>
    /\ UNCHANGED <<Units, Lifecycle, s3Configured, Sftp, Runtime, fs, now, opKind, Locals,
                   deferStart, quiesced, result, handlerErr, ops, RestoreLocals, CleanupLocals>>

\* if m.S3 != nil { m.S3.Upload(localPath, backupName) }; return nil
CB_UploadS3 ==
    /\ pc = "cb_upload_s3"
    /\ \/ /\ s3Configured
          /\ Issue(Call("Upload", "s3", TRUE))
          /\ s3' = Put(s3, backupName, Stored(localFile))
          /\ Exit("nil")
       \/ /\ s3Configured
          /\ Issue(Call("Upload", "s3", FALSE))
          /\ Exit("upload_s3")
          /\ UNCHANGED s3
       \/ /\ ~s3Configured
          /\ Exit("nil")
          /\ UNCHANGED <<s3, calls>>
    /\ UNCHANGED <<Units, Lifecycle, synology, s3Configured, Sftp, Runtime, fs, now, opKind, Locals,
                   deferStart, quiesced, result, handlerErr, ops, RestoreLocals, CleanupLocals>>

----------------------------------------------------------------------------
\* The trees under the two service paths differ.
InitFs == [s \in Services |-> IF s = <<"app">> THEN "v1" ELSE "v2"]

\* No cron job is running; Run and Stop have not returned.
NoJob == [svc |-> <<>>, phase |-> "none", at |-> 0]
NoDaemon ==
    [cron |-> "new", job |-> NoJob, runReturned |-> FALSE, stopReturned |-> FALSE,
     closed |-> FALSE, log |-> <<>>]

\* The operations that can run at the same time, none of them started.
Workers == {1, 2}
NoWorker == [kind |-> "none", svc |-> <<>>, pc |-> "idle"]

InitLocals ==
    /\ pc = "idle"
    /\ opKind = "none"
    /\ svcName = <<>>
    /\ backupName = NoName
    /\ archiveData = NoData
    /\ encrypted = NoData
    /\ localFile = NoData
    /\ deferStart = FALSE
    /\ quiesced = FALSE
    /\ err = "nil"
    /\ result = "none"
    /\ handlerErr = "nil"
    /\ calls = <<>>
    /\ ops = 0
    /\ lastInspect = NoInspect
    /\ cancelled = FALSE
    /\ exclude = [s \in Services |-> <<>>]
    /\ excludePatterns = <<>>
    /\ destTree = NoData
    /\ cryptoLog = <<>>
    /\ daemon = NoDaemon
    /\ workers = [w \in Workers |-> NoWorker]
    /\ selected = NoSelection
    /\ source = "none"
    /\ fsBefore = InitFs
    /\ todo = {}
    /\ cur = <<>>
    /\ retainCount = 0
    /\ queue = <<>>
    /\ deletedCount = 0
    /\ deletedCounts = EmptyMap
    /\ listed = EmptyMap

\* Unset: the RetainBackups pointer of a service is nil.
Unset == -1

\* A configuration without per-service retention.
InitRetention ==
    /\ retainGlobal = 1
    /\ retainService = [s \in Services |-> Unset]
    /\ oldRetention = [global |-> retainGlobal, service |-> retainService]

InitRuntime ==
    /\ ctr = "running"
    /\ health \in {"none", "healthy"}

\* The backup pipeline on backends that start empty.
\* Paths on the Synology side. A path is absolute or relative to the working
\* directory of the SFTP session.
HomeDir == <<"volume1", "homes", "user">>
RootDir == <<>>
RelativePath == [abs |-> FALSE, dir |-> <<"backups">>]
HomePath == [abs |-> TRUE, dir |-> HomeDir \o <<"backups">>]

\* getRemotePath: the configured path (the file name is joined to it).
getRemotePath == synologyPath

\* Upload, List and Download: a path under /volume1/homes/<user>/ is made
\* relative to it.
TrimHome(path) ==
    IF /\ path.abs
       /\ Len(path.dir) > Len(HomeDir)
       /\ SubSeq(path.dir, 1, Len(HomeDir)) = HomeDir
    THEN [abs |-> FALSE, dir |-> SubSeq(path.dir, Len(HomeDir) + 1, Len(path.dir))]
    ELSE path

\* Delete: a path that does not start with "/" gets "/" in front.
MakeAbsolute(path) == [abs |-> TRUE, dir |-> path.dir]

\* The directory the server resolves a path to.
Resolve(path) == IF path.abs THEN path.dir ELSE pwd \o path.dir

\* Where Upload creates the artifacts and List reads them, and where Delete
\* looks for them.
StoredAt == Resolve(TrimHome(getRemotePath))
DeletedAt == Resolve(MakeAbsolute(getRemotePath))

\* Upload, List and Download resolve one and the same path, whatever the
\* configured path and the working directory are.
InitSftp ==
    /\ synologyPath = RelativePath
    /\ pwd = RootDir

InitBackup ==
    /\ InitLocals
    /\ InitRuntime
    /\ synology = EmptyMap
    /\ s3 = EmptyMap
    /\ s3Configured \in BOOLEAN
    /\ InitSftp
    /\ fs = InitFs
    /\ now = 1
    /\ InitRetention

Handler ==
    \/ H_StopRequest
    \/ H_StopPoll
    \/ H_StartRequest
    \/ H_StartInspect
    \/ H_HealthPoll
    \/ H_RunPoll
    \/ Finish
    \/ DockerProgress

NextBackup ==
    \/ \E s \in ServiceNames : CreateBackup(s)
    \/ CB_PreBackup
    \/ CB_Docker
    \/ CB_Archive
    \/ CB_Encrypt
    \/ CB_Stage
    \/ CB_UploadSynology
    \/ CB_UploadS3
    \/ Handler
    \/ Tick

SpecBackup == InitBackup /\ [][NextBackup]_vars

----------------------------------------------------------------------------
\* Properties of CreateBackup, checked under SpecBackup.

Returned(kind) == opKind = kind /\ pc = "returned"

\* Positions in calls of the requests of one kind.
CallsOf(c) == {i \in DOMAIN calls : calls[i].call = c}

\* A start request follows an accepted stop request.
StartIssuedAfterStop ==
    \E i \in CallsOf("ContainerStart") :
        \E j \in CallsOf("ContainerStop") : j < i /\ calls[j].ok

\* C1: once the quiesce of the bound container has succeeded, CreateBackup
\* issues a start request for that container before it returns, whatever the
\* exit path: archive, encryption, staging or upload failure, or success.
C1_BackupResumesOnEveryExit ==
    (Returned("backup") /\ quiesced) =>
        /\ result \in {"archive", "encrypt", "stage", "upload_synology",
                       "upload_s3", "nil"}
        /\ StartIssuedAfterStop
        /\ \A i \in CallsOf("ContainerStart") : calls[i].target = Docker(svcName)

C1_Witness ==
    /\ Returned("backup")
    /\ quiesced
    /\ result = "archive"
    /\ StartIssuedAfterStop

\* The upload requests of the running operation, in order.
Uploads == SelectSeq(calls, LAMBDA c : c.call = "Upload")

UploadError(b) == IF b = "synology" THEN "upload_synology" ELSE "upload_s3"

\* C2: CreateBackup uploads to Synology first and to S3, when configured, only
\* after the Synology upload succeeded; a failed upload makes it return the
\* error that names the backend which failed.
C2_UploadOrder ==
    opKind = "backup" =>
        /\ Len(Uploads) <= (IF s3Configured THEN 2 ELSE 1)
        /\ Len(Uploads) >= 1 => Uploads[1].target = "synology"
        /\ Len(Uploads) = 2 => Uploads[1].ok /\ Uploads[2].target = "s3"
        /\ pc = "returned" =>
              /\ \A i \in DOMAIN Uploads :
                    ~Uploads[i].ok => result = UploadError(Uploads[i].target)
              /\ result = "nil" => Len(Uploads) = (IF s3Configured THEN 2 ELSE 1)
              /\ result \in {"upload_synology", "upload_s3"} =>
                    /\ Len(Uploads) >= 1
                    /\ ~Uploads[Len(Uploads)].ok

C2_Witness ==
    /\ Returned("backup")
    /\ Len(Uploads) = 2
    /\ ~Uploads[2].ok
    /\ result = "upload_s3"

\* C3: when the S3 upload fails after the Synology upload succeeded,
\* CreateBackup returns an error and the copy on Synology is still there;
\* CreateBackup issues no Delete on any backend.
C3_NoRollback ==
    opKind = "backup" =>
        /\ CallsOf("Delete") = {}
        /\ (pc = "returned" /\ Len(Uploads) = 2 /\ ~Uploads[2].ok) =>
              /\ result # "nil"
              /\ backupName \in DOMAIN synology
              /\ synology[backupName].data = encrypted

C3_Witness ==
    /\ Returned("backup")
    /\ result = "upload_s3"
    /\ backupName \in DOMAIN synology
    /\ backupName \notin DOMAIN s3

\* The artifact stored under name n on a backend is the encryption under the
\* manager's key of the archive of the tree of service s.
HoldsBackupOf(backend, n, s) ==
    /\ n \in DOMAIN backend
    /\ IsCiphertext(backend[n].data)
    /\ Decrypt(Key, backend[n].data).ok
    /\ Decrypt(Key, backend[n].data).pt = Archive(fs[s])

\* C4: after a successful CreateBackup every configured backend holds the
\* artifact "<service>-<timestamp>.enc", with the same bytes on all of them,
\* and these bytes decrypt under the manager's key to the archive of the
\* service path; what is uploaded is never the plain archive.
C4_ArtifactOnEveryBackend ==
    (Returned("backup") /\ result = "nil") =>
        /\ \E t \in 1..now : backupName = BackupNameOf(svcName, t)
        /\ HoldsBackupOf(synology, backupName, svcName)
        /\ s3Configured =>
              /\ HoldsBackupOf(s3, backupName, svcName)
              /\ s3[backupName].data = synology[backupName].data

C4_Witness ==
    /\ Returned("backup")
    /\ result = "nil"
    /\ s3Configured
    /\ backupName \in DOMAIN s3
    /\ Decrypt(Key, s3[backupName].data).ok

----------------------------------------------------------------------------
\* The restore command (restoreCmd.RunE) and Manager.RestoreBackup

\* The locals of a fresh operation.
ResetLocals ==
    /\ deferStart' = FALSE
    /\ quiesced' = FALSE
    /\ handlerErr' = "nil"
    /\ archiveData' = NoData
    /\ encrypted' = NoData
    /\ localFile' = NoData
    /\ source' = "none"
    /\ fsBefore' = fs

\* An operation that returns before it has done anything else.
ReturnsAtOnce(e, issued) ==
    /\ result' = e
    /\ err' = e
    /\ pc' = "returned"
    /\ calls' = issued

\* allBackups: the rows of both listings, tagged with their source.
Rows(files, src) == {[name |-> f.name, mtime |-> f.mtime, source |-> src] : f \in files}

ListCalls == <<Call("List", "synology", TRUE)>> \o
             (IF s3Configured THEN <<Call("List", "s3", TRUE)>> ELSE <<>>)

\* restoreCmd.RunE(serviceName): the listings, the operator's selection and
\* confirmation, up to the call of RestoreBackup.
RestoreCmd(serviceName) ==
    /\ CanStart
    /\ ops' = ops + 1
    /\ opKind' = "restore"
    /\ svcName' = serviceName
    /\ ResetLocals
    /\ LET allBackups == Rows(List(synology, serviceName), "synology") \cup
                         (IF s3Configured
                          THEN Rows(List(s3, serviceName), "s3") ELSE {})
       IN  \/ /\ ReturnsAtOnce("list_synology", <<Call("List", "synology", FALSE)>>)
              /\ selected' = NoSelection
              /\ backupName' = NoName
           \/ /\ s3Configured
              /\ ReturnsAtOnce("list_s3", <<Call("List", "synology", TRUE),
                                            Call("List", "s3", FALSE)>>)
              /\ selected' = NoSelection
              /\ backupName' = NoName
           \/ /\ allBackups = {}
              /\ ReturnsAtOnce("no_backups", ListCalls)
              /\ selected' = NoSelection
              /\ backupName' = NoName
           \/ /\ allBackups # {}
              /\ ReturnsAtOnce("nil", ListCalls)
              /\ selected' = NoSelection
              /\ backupName' = NoName
           \/ /\ allBackups # {}
              /\ ReturnsAtOnce("invalid_selection", ListCalls)
              /\ selected' = NoSelection
              /\ backupName' = NoName
           \/ \E sorted \in SortNewestFirst(allBackups) :
              \E index \in 1..Len(sorted) :
                 /\ selected' = [name |-> sorted[index].name,
                                 source |-> sorted[index].source]
                 /\ backupName' = sorted[index].name
                 /\ \/ /\ serviceName \notin Services
                       /\ ReturnsAtOnce("service_not_found", ListCalls)
                    \/ /\ serviceName \in Services
                       /\ Docker(serviceName) # "none"
                       /\ ReturnsAtOnce("validate_container", ListCalls)
                    \/ /\ serviceName \in Services
                       /\ ReturnsAtOnce("nil", ListCalls)
                    \/ /\ serviceName \in Services
                       /\ calls' = ListCalls
                       /\ result' = "pending"
                       /\ err' = "nil"
                       /\ pc' = "rb_mkdir"
    /\ UNCHANGED <<Units, Lifecycle, Backends, Runtime, fs, now, CleanupLocals>>

\* Manager.RestoreBackup(serviceName, name) called directly: the service lookup.
RestoreBackup(serviceName, name) ==
    /\ CanStart
    /\ ops' = ops + 1
    /\ opKind' = "restore"
    /\ svcName' = serviceName
    /\ backupName' = name
    /\ selected' = NoSelection
    /\ ResetLocals
    /\ \/ /\ serviceName \notin Services
          /\ ReturnsAtOnce("service_not_found", <<>>)
       \/ /\ serviceName \in Services
          /\ calls' = <<>>
          /\ result' = "pending"
          /\ err' = "nil"
          /\ pc' = "rb_mkdir"
    /\ UNCHANGED <<Units, Lifecycle, Backends, Runtime, fs, now, CleanupLocals>>

\* os.MkdirAll(tmpDir); the deferred os.RemoveAll is registered after it.
RB_Mkdir ==
    /\ pc = "rb_mkdir"
    /\ \/ /\ pc' = "rb_download_synology"
          /\ UNCHANGED <<err, result>>
       \/ /\ pc' = "returned"
          /\ err' = "mkdir_tmp"
          /\ result' = "mkdir_tmp"
    /\ UNCHANGED <<Units, Lifecycle, Backends, Runtime, fs, now, opKind, Locals, deferStart, quiesced,
                   handlerErr, calls, ops, RestoreLocals, CleanupLocals>>

\* Variant of RB_DownloadSynology: a failed primary download is final.
RB_DownloadSynology_NoFallback ==
    /\ pc = "rb_download_synology"
    /\ \/ /\ backupName \in DOMAIN synology
          /\ Issue(Call("Download", "synology", TRUE))
          /\ localFile' = synology[backupName].data
          /\ source' = "synology"
          /\ pc' = "rb_read"
          /\ UNCHANGED err
       \/ /\ Issue(Call("Download", "synology", FALSE))
          /\ Exit("download_synology")
          /\ UNCHANGED <<localFile, source>>
    /\ UNCHANGED <<Units, Lifecycle, Backends, Runtime, fs, now, opKind, svcName, backupName,
                   archiveData, encrypted, deferStart, quiesced, result, handlerErr,
                   selected, fsBefore, ops, CleanupLocals>>

\* m.Synology.Download(backupName, encryptedPath), and the choice of what
\* follows a failure.
RB_DownloadSynology ==
    /\ pc = "rb_download_synology"
    /\ \/ /\ backupName \in DOMAIN synology
          /\ Issue(Call("Download", "synology", TRUE))
          /\ localFile' = synology[backupName].data
          /\ source' = "synology"
          /\ pc' = "rb_read"
          /\ UNCHANGED err
       \/ /\ Issue(Call("Download", "synology", FALSE))
          /\ IF s3Configured
             THEN pc' = "rb_download_s3" /\ UNCHANGED err
             ELSE Exit("download_synology")
          /\ UNCHANGED <<localFile, source>>
    /\ UNCHANGED <<Units, Lifecycle, Backends, Runtime, fs, now, opKind, svcName, backupName,
                   archiveData, encrypted, deferStart, quiesced, result, handlerErr,
                   selected, fsBefore, ops, CleanupLocals>>

\* m.S3.Download(backupName, encryptedPath)
RB_DownloadS3 ==
    /\ pc = "rb_download_s3"
    /\ \/ /\ backupName \in DOMAIN s3
          /\ Issue(Call("Download", "s3", TRUE))
          /\ localFile' = s3[backupName].data
          /\ source' = "s3"
          /\ pc' = "rb_read"
          /\ UNCHANGED err
       \/ /\ Issue(Call("Download", "s3", FALSE))
          /\ Exit("download_any")
          /\ UNCHANGED <<localFile, source>>
    /\ UNCHANGED <<Units, Lifecycle, Backends, Runtime, fs, now, opKind, svcName, backupName,
                   archiveData, encrypted, deferStart, quiesced, result, handlerErr,
                   selected, fsBefore, ops, CleanupLocals>>

\* os.ReadFile(encryptedPath)
RB_Read ==
    /\ pc = "rb_read"
    /\ \/ /\ encrypted' = localFile
          /\ pc' = "rb_decrypt"
          /\ UNCHANGED err
       \/ /\ Exit("read")
          /\ UNCHANGED encrypted
    /\ UNCHANGED <<Units, Lifecycle, Backends, Runtime, fs, now, opKind, svcName, backupName,
                   archiveData, localFile, deferStart, quiesced, result, handlerErr,
                   calls, ops, RestoreLocals, CleanupLocals>>

\* Variant of RB_Decrypt: the error of Decrypt is dropped.
RB_Decrypt_ErrorDropped ==
    /\ pc = "rb_decrypt"
    /\ archiveData' = IF Decrypt(Key, encrypted).ok
                      THEN Decrypt(Key, encrypted).pt ELSE Archive("garbage")
    /\ pc' = "rb_docker"
    /\ UNCHANGED <<Units, Lifecycle, Backends, Runtime, fs, now, opKind, svcName, backupName,
                   encrypted, localFile, deferStart, quiesced, err, result,
                   handlerErr, calls, ops, RestoreLocals, CleanupLocals>>

\* Variant of RB_Decrypt: a copy that does not decrypt is fetched again from S3.
RB_Decrypt_Fallback ==
    /\ pc = "rb_decrypt"
    /\ IF Decrypt(Key, encrypted).ok
       THEN /\ archiveData' = Decrypt(Key, encrypted).pt
            /\ pc' = "rb_docker"
            /\ UNCHANGED err
       ELSE /\ IF s3Configured /\ source = "synology"
               THEN pc' = "rb_download_s3" /\ UNCHANGED err
               ELSE Exit("decrypt")
            /\ UNCHANGED archiveData
    /\ UNCHANGED <<Units, Lifecycle, Backends, Runtime, fs, now, opKind, svcName, backupName,
                   encrypted, localFile, deferStart, quiesced, result, handlerErr,
                   calls, ops, RestoreLocals, CleanupLocals>>

\* crypto.Decrypt(m.key, encrypted)
RB_Decrypt ==
    /\ pc = "rb_decrypt"
    /\ IF Decrypt(Key, encrypted).ok
       THEN /\ archiveData' = Decrypt(Key, encrypted).pt
            /\ pc' = "rb_docker"
            /\ UNCHANGED err
       ELSE /\ Exit("decrypt")
            /\ UNCHANGED archiveData
    /\ UNCHANGED <<Units, Lifecycle, Backends, Runtime, fs, now, opKind, svcName, backupName,
                   encrypted, localFile, deferStart, quiesced, result, handlerErr,
                   calls, ops, RestoreLocals, CleanupLocals>>

\* if service.Docker != nil { handleDockerContainer(.., true) }
RB_Docker ==
    /\ pc = "rb_docker"
    /\ pc' = IF Docker(svcName) # "none" THEN "h_stop_req" ELSE "rb_extract"
    /\ UNCHANGED <<Units, Lifecycle, Backends, Runtime, fs, now, opKind, Locals, deferStart, quiesced,
                   err, result, handlerErr, calls, ops, RestoreLocals, CleanupLocals>>

\* What an extraction that broke off part-way leaves under the service path.
PartlyExtracted == "partial"

\* m.extractArchive(decrypted, service.Path)
RB_Extract ==
    /\ pc = "rb_extract"
    /\ \/ /\ fs' = [fs EXCEPT ![svcName] = archiveData.tree]
          /\ Exit("nil")
       \/ /\ fs' \in {fs, [fs EXCEPT ![svcName] = PartlyExtracted]}
          /\ Exit("extract")
    /\ UNCHANGED <<Units, Lifecycle, Backends, Runtime, now, opKind, Locals, deferStart, quiesced,
                   result, handlerErr, calls, ops, RestoreLocals, CleanupLocals>>

----------------------------------------------------------------------------
\* The artifacts the restore pipeline starts from: a copy of one artifact of
\* "app" on each backend (absent, sound, sealed under another key, or
\* truncated) and, on Synology, an artifact left by a service "web" that is
\* no longer configured.
Artifact == BackupNameOf(<<"app">>, 1)
Orphan == BackupNameOf(<<"web">>, 1)

Copies(nonce) ==
    {Encrypt(Key, Archive("v2"), nonce),
     Encrypt(OtherKey, Archive("v2"), nonce),
     Truncated(Encrypt(Key, Archive("v2"), nonce))}

File(data) == [data |-> data, mtime |-> FormatTime(1)]

OrphanOnly == [n \in {Orphan} |-> File(Encrypt(Key, Archive("v1"), 1))]

InitRestore ==
    /\ InitLocals
    /\ InitRuntime
    /\ InitSftp
    /\ s3Configured \in BOOLEAN
    /\ synology \in {OrphanOnly} \cup {Put(OrphanOnly, Artifact, File(d)) : d \in Copies(1)}
    /\ s3 \in IF s3Configured
              THEN {EmptyMap} \cup {Put(EmptyMap, Artifact, File(d)) : d \in Copies(2)}
              ELSE {EmptyMap}
    /\ fs = InitFs
    /\ now = 1
    /\ InitRetention

\* The names a direct caller may pass: the stored ones and one that is stored
\* nowhere.
Missing == BackupNameOf(<<"app">>, 0)

NextRestore ==
    \/ \E s \in ServiceNames : RestoreCmd(s)
    \/ \E s \in ServiceNames :
          \E n \in DOMAIN synology \cup DOMAIN s3 \cup {Missing} : RestoreBackup(s, n)
    \/ RB_Mkdir
    \/ RB_DownloadSynology
    \/ RB_DownloadS3
    \/ RB_Read
    \/ RB_Decrypt
    \/ RB_Docker
    \/ RB_Extract
    \/ Handler

SpecRestore == InitRestore /\ [][NextRestore]_vars

----------------------------------------------------------------------------
\* Properties of the restore pipeline, checked under SpecRestore.

\* The download requests of the running operation, in order.
Downloads == SelectSeq(calls, LAMBDA c : c.call = "Download")

DownloadErrors == {"download_synology", "download_any"}

ConfiguredBackends == IF s3Configured THEN 2 ELSE 1

\* C5: RestoreBackup downloads from Synology first; when that fails and S3 is
\* configured it downloads from S3, and the restore goes on when that
\* succeeds; it returns a download error only when every configured backend
\* failed.
C5_DownloadFallback ==
    opKind = "restore" =>
        /\ Len(Downloads) <= ConfiguredBackends
        /\ Len(Downloads) >= 1 => Downloads[1].target = "synology"
        /\ Len(Downloads) = 2 => ~Downloads[1].ok /\ Downloads[2].target = "s3"
        /\ pc = "returned" =>
              /\ result \in DownloadErrors <=>
                    /\ Len(Downloads) = ConfiguredBackends
                    /\ \A i \in DOMAIN Downloads : ~Downloads[i].ok
              /\ (Len(Downloads) >= 1 /\ ~Downloads[1].ok /\ s3Configured) =>
                    Len(Downloads) = 2
              /\ (Len(Downloads) = 2 /\ Downloads[2].ok) =>
                    /\ source = "s3"
                    /\ result \in {"read", "decrypt", "stop_request", "stop_timeout",
                                   "stop_inspect", "extract", "nil"}

C5_Witness ==
    /\ Returned("restore")
    /\ Len(Downloads) = 2
    /\ Downloads[2].ok
    /\ result = "nil"
    /\ fs[svcName] = "v2"

DecryptOk == Decrypt(Key, encrypted).ok

\* C6: RestoreBackup sends the stop request only after the download and the
\* decryption have succeeded; until then, and when it returns a download or
\* decryption error, no stop or start request was sent and the service path
\* is as it was.
C6_StopOnlyAfterDecrypt ==
    opKind = "restore" =>
        /\ ~DecryptOk =>
              /\ CallsOf("ContainerStop") = {}
              /\ CallsOf("ContainerStart") = {}
              /\ fs = fsBefore
        /\ (pc = "returned" /\ result \in DownloadErrors \cup {"decrypt"}) => ~DecryptOk
        /\ DecryptOk => Len(Downloads) >= 1 /\ Downloads[Len(Downloads)].ok

C6_Witness ==
    /\ Returned("restore")
    /\ Docker(svcName) # "none"
    /\ result = "decrypt"
    /\ CallsOf("ContainerStop") = {}
    /\ fs = fsBefore

\* C7: when the Synology download succeeded and the bytes do not decrypt,
\* RestoreBackup returns the decryption error, which is not a download error,
\* and it does not download the artifact from S3.
C7_DecryptFailureIsFatal ==
    (opKind = "restore" /\ Len(Downloads) >= 1 /\ Downloads[1].ok) =>
        /\ Len(Downloads) = 1
        /\ (pc = "returned" /\ encrypted # NoData /\ ~DecryptOk) =>
              /\ result = "decrypt"
              /\ result \notin DownloadErrors

C7_Witness ==
    /\ Returned("restore")
    /\ Len(Downloads) = 1
    /\ Downloads[1].ok
    /\ result = "decrypt"
    /\ s3Configured
    /\ backupName \in DOMAIN s3
    /\ Decrypt(Key, s3[backupName].data).ok

\* C8: once the quiesce of the bound container has succeeded, RestoreBackup
\* issues a start request for that container before it returns, when the
\* extraction succeeded and when it failed part-way.
C8_RestoreResumesOnEveryExit ==
    (Returned("restore") /\ quiesced) =>
        /\ result \in {"extract", "nil"}
        /\ StartIssuedAfterStop
        /\ \A i \in CallsOf("ContainerStart") : calls[i].target = Docker(svcName)

C8_Witness ==
    /\ Returned("restore")
    /\ quiesced
    /\ result = "extract"
    /\ fs[svcName] = PartlyExtracted
    /\ StartIssuedAfterStop

\* C9: in the restore command the bytes that are decrypted and extracted are
\* downloaded from the backend under which the operator selected the
\* artifact, also when the other backend holds an artifact of that name.
C9_SelectedBackendIsSource ==
    (opKind = "restore" /\ selected # NoSelection /\ source # "none") =>
        source = selected.source

----------------------------------------------------------------------------
\* Manager.CleanupBackups

\* The empty service filter "".
AllServices == <<>>

\* Variant of EffectiveRetain: an override of 0 counts as no override.
EffectiveRetain_ZeroIsUnset(s) ==
    IF retainService[s] > 0 THEN retainService[s] ELSE retainGlobal

\* retainCount := m.config.Backup.RetainBackups, replaced by
\* *service.RetainBackups when that pointer is set.
EffectiveRetain(s) ==
    IF retainService[s] # Unset THEN retainService[s] ELSE retainGlobal

\* Keys of the returned map: name + "_synology", name + "_s3".
CountKey(s, backend) == [name |-> s, suffix |-> backend]

\* backups[retainCount:]
Beyond(sorted, n) == SubSeq(sorted, n + 1, Len(sorted))

\* CleanupBackups returns (no deferred calls).
CleanupReturns(e) ==
    /\ result' = e
    /\ err' = e
    /\ pc' = "returned"

\* Variant of CleanupBackups: a name that is not configured is taken as the
\* empty filter.
CleanupBackups_UnknownIsAll(serviceName) ==
    /\ CanStart
    /\ ops' = ops + 1
    /\ opKind' = "cleanup"
    /\ svcName' = serviceName
    /\ backupName' = NoName
    /\ selected' = NoSelection
    /\ ResetLocals
    /\ calls' = <<>>
    /\ deletedCounts' = EmptyMap
    /\ listed' = EmptyMap
    /\ cur' = <<>>
    /\ queue' = <<>>
    /\ deletedCount' = 0
    /\ retainCount' = 0
    /\ \/ /\ serviceName # AllServices
          /\ serviceName \notin Services
          /\ todo' = Services
          /\ pc' = "cl_next"
          /\ result' = "pending"
          /\ err' = "nil"
       \/ /\ serviceName # AllServices
          /\ serviceName \in Services
          /\ todo' = {serviceName}
          /\ pc' = "cl_next"
          /\ result' = "pending"
          /\ err' = "nil"
       \/ /\ serviceName = AllServices
          /\ todo' = Services
          /\ pc' = "cl_next"
          /\ result' = "pending"
          /\ err' = "nil"
    /\ UNCHANGED <<Units, Lifecycle, Backends, Runtime, fs, now, Retention>>

\* Entry: the choice of the services to clean.
CleanupBackups(serviceName) ==
    /\ CanStart
    /\ ops' = ops + 1
    /\ opKind' = "cleanup"
    /\ svcName' = serviceName
    /\ backupName' = NoName
    /\ selected' = NoSelection
    /\ ResetLocals
    /\ calls' = <<>>
    /\ deletedCounts' = EmptyMap
    /\ listed' = EmptyMap
    /\ cur' = <<>>
    /\ queue' = <<>>
    /\ deletedCount' = 0
    /\ retainCount' = 0
    /\ \/ /\ serviceName # AllServices
          /\ serviceName \notin Services
          /\ CleanupReturns("service_not_found")
          /\ todo' = {}
       \/ /\ serviceName # AllServices
          /\ serviceName \in Services
          /\ todo' = {serviceName}
          /\ pc' = "cl_next"
          /\ result' = "pending"
          /\ err' = "nil"
       \/ /\ serviceName = AllServices
          /\ todo' = Services
          /\ pc' = "cl_next"
          /\ result' = "pending"
          /\ err' = "nil"
    /\ UNCHANGED <<Units, Lifecycle, Backends, Runtime, fs, now, Retention>>

\* for name, service := range services: the range over a map visits the
\* services in any order.
CL_NextService ==
    /\ pc = "cl_next"
    /\ \/ /\ todo = {}
          /\ CleanupReturns("nil")
          /\ UNCHANGED <<todo, cur, retainCount>>
       \/ \E name \in todo :
             /\ cur' = name
             /\ todo' = todo \ {name}
             /\ retainCount' = EffectiveRetain(name)
             /\ pc' = "cl_list_synology"
             /\ UNCHANGED <<err, result>>
    /\ UNCHANGED <<Units, Lifecycle, Backends, Runtime, fs, now, opKind, Locals, deferStart, quiesced,
                   handlerErr, calls, ops, RestoreLocals, Retention, queue,
                   deletedCount, deletedCounts, listed>>

\* m.Synology.List(name + "-"), the sort, and the test len > retainCount.
CL_ListSynology ==
    /\ pc = "cl_list_synology"
    /\ \/ /\ Issue(Call("List", "synology", FALSE))
          /\ CleanupReturns("list_synology")
          /\ UNCHANGED <<queue, deletedCount, listed>>
       \/ /\ Issue(Call("List", "synology", TRUE))
          /\ listed' = Put(listed, CountKey(cur, "synology"), List(synology, cur))
          /\ \E synologyBackups \in SortNewestFirst(List(synology, cur)) :
                IF Len(synologyBackups) > retainCount
                THEN /\ queue' = Beyond(synologyBackups, retainCount)
                     /\ deletedCount' = 0
                     /\ pc' = "cl_delete_synology"
                ELSE /\ pc' = "cl_list_s3"
                     /\ UNCHANGED <<queue, deletedCount>>
          /\ UNCHANGED <<err, result>>
    /\ UNCHANGED <<Units, Lifecycle, Backends, Runtime, fs, now, opKind, Locals, deferStart, quiesced,
                   handlerErr, ops, RestoreLocals, Retention, todo, cur, retainCount,
                   deletedCounts>>

\* One iteration of the delete loop on Synology, or its end. Delete removes the
\* file when its path names the file that was listed. It fails with "file
\* does not exist", which the loop skips, when its path names nothing or when
\* the file was removed by somebody else after the listing.
CL_DeleteSynology ==
    /\ pc = "cl_delete_synology"
    /\ \/ /\ queue = <<>>
          /\ deletedCounts' = Put(deletedCounts, CountKey(cur, "synology"), deletedCount)
          /\ pc' = "cl_list_s3"
          /\ UNCHANGED <<synology, queue, deletedCount, err, result, calls>>
       \/ /\ queue # <<>>
          /\ DeletedAt = StoredAt
          /\ Issue(DeleteCall("synology", Head(queue).name, "nil"))
          /\ synology' = Remove(synology, Head(queue).name)
          /\ deletedCount' = deletedCount + 1
          /\ queue' = Tail(queue)
          /\ UNCHANGED <<pc, err, result, deletedCounts>>
       \/ /\ queue # <<>>
          /\ Issue(DeleteCall("synology", Head(queue).name, "not_found"))
          /\ synology' = IF DeletedAt = StoredAt
                         THEN Remove(synology, Head(queue).name)
                         ELSE synology
          /\ queue' = Tail(queue)
          /\ UNCHANGED <<pc, err, result, deletedCount, deletedCounts>>
       \/ /\ queue # <<>>
          /\ Issue(DeleteCall("synology", Head(queue).name, "other"))
          /\ CleanupReturns("delete_synology")
          /\ UNCHANGED <<synology, queue, deletedCount, deletedCounts>>
    /\ UNCHANGED <<Units, Lifecycle, s3, s3Configured, Sftp, Runtime, fs, now, opKind, Locals, deferStart,
                   quiesced, handlerErr, ops, RestoreLocals, Retention, todo, cur,
                   retainCount, listed>>

\* if m.S3 != nil: m.S3.List(name + "-"), the sort, and the test len > retainCount.
CL_ListS3 ==
    /\ pc = "cl_list_s3"
    /\ \/ /\ ~s3Configured
          /\ pc' = "cl_next"
          /\ UNCHANGED <<queue, deletedCount, listed, err, result, calls>>
       \/ /\ s3Configured
          /\ Issue(Call("List", "s3", FALSE))
          /\ CleanupReturns("list_s3")
          /\ UNCHANGED <<queue, deletedCount, listed>>
       \/ /\ s3Configured
          /\ Issue(Call("List", "s3", TRUE))
          /\ listed' = Put(listed, CountKey(cur, "s3"), List(s3, cur))
          /\ \E s3Backups \in SortNewestFirst(List(s3, cur)) :
                IF Len(s3Backups) > retainCount
                THEN /\ queue' = Beyond(s3Backups, retainCount)
                     /\ deletedCount' = 0
                     /\ pc' = "cl_delete_s3"
                ELSE /\ pc' = "cl_next"
                     /\ UNCHANGED <<queue, deletedCount>>
          /\ UNCHANGED <<err, result>>
    /\ UNCHANGED <<Units, Lifecycle, Backends, Runtime, fs, now, opKind, Locals, deferStart, quiesced,
                   handlerErr, ops, RestoreLocals, Retention, todo, cur, retainCount,
                   deletedCounts>>

\* Variant of CL_DeleteS3: a Delete error is skipped and the loop goes on.
CL_DeleteS3_ErrorSkipped ==
    /\ pc = "cl_delete_s3"
    /\ \/ /\ queue = <<>>
          /\ deletedCounts' = Put(deletedCounts, CountKey(cur, "s3"), deletedCount)
          /\ pc' = "cl_next"
          /\ UNCHANGED <<s3, queue, deletedCount, err, result, calls>>
       \/ /\ queue # <<>>
          /\ Issue(DeleteCall("s3", Head(queue).name, "nil"))
          /\ s3' = Remove(s3, Head(queue).name)
          /\ deletedCount' = deletedCount + 1
          /\ queue' = Tail(queue)
          /\ UNCHANGED <<pc, err, result, deletedCounts>>
       \/ /\ queue # <<>>
          /\ Issue(DeleteCall("s3", Head(queue).name, "not_found"))
          /\ s3' = Remove(s3, Head(queue).name)
          /\ CleanupReturns("delete_s3")
          /\ UNCHANGED <<queue, deletedCount, deletedCounts>>
       \/ /\ queue # <<>>
          /\ Issue(DeleteCall("s3", Head(queue).name, "other"))
          /\ queue' = Tail(queue)
          /\ UNCHANGED <<s3, pc, err, result, deletedCount, deletedCounts>>
    /\ UNCHANGED <<Units, Lifecycle, synology, s3Configured, Sftp, Runtime, fs, now, opKind, Locals,
                   deferStart, quiesced, handlerErr, ops, RestoreLocals, Retention,
                   todo, cur, retainCount, listed>>

\* One iteration of the delete loop on S3, or its end: every error of Delete
\* is returned, also the one for an object that somebody else removed after
\* the listing.
CL_DeleteS3 ==
    /\ pc = "cl_delete_s3"
    /\ \/ /\ queue = <<>>
          /\ deletedCounts' = Put(deletedCounts, CountKey(cur, "s3"), deletedCount)
          /\ pc' = "cl_next"
          /\ UNCHANGED <<s3, queue, deletedCount, err, result, calls>>
       \/ /\ queue # <<>>
          /\ Issue(DeleteCall("s3", Head(queue).name, "nil"))
          /\ s3' = Remove(s3, Head(queue).name)
          /\ deletedCount' = deletedCount + 1
          /\ queue' = Tail(queue)
          /\ UNCHANGED <<pc, err, result, deletedCounts>>
       \/ /\ queue # <<>>
          /\ Issue(DeleteCall("s3", Head(queue).name, "not_found"))
          /\ s3' = Remove(s3, Head(queue).name)
          /\ CleanupReturns("delete_s3")
          /\ UNCHANGED <<queue, deletedCount, deletedCounts>>
       \/ /\ queue # <<>>
          /\ Issue(DeleteCall("s3", Head(queue).name, "other"))
          /\ CleanupReturns("delete_s3")
          /\ UNCHANGED <<s3, queue, deletedCount, deletedCounts>>
    /\ UNCHANGED <<Units, Lifecycle, synology, s3Configured, Sftp, Runtime, fs, now, opKind, Locals,
                   deferStart, quiesced, handlerErr, ops, RestoreLocals, Retention,
                   todo, cur, retainCount, listed>>

----------------------------------------------------------------------------
\* The artifacts cleanup starts from: on Synology any of three artifacts of
\* "app" (one with a ModTime that does not parse) and one of "app-db"; on S3
\* any of two artifacts of "app" with the same ModTime.
AtTime(t) == [data |-> Encrypt(Key, Archive("v1"), 1), mtime |-> t]

SynologyFiles ==
    [n \in {BackupNameOf(<<"app">>, 1), BackupNameOf(<<"app">>, 2),
            BackupNameOf(<<"app">>, 3), BackupNameOf(<<"app", "db">>, 2)} |->
        IF n.ts = 3 THEN AtTime(BadTime) ELSE AtTime(FormatTime(n.ts))]

S3Files ==
    [n \in {BackupNameOf(<<"app">>, 1), BackupNameOf(<<"app">>, 2)} |->
        AtTime(FormatTime(1))]

Restrict(m, D) == [n \in D |-> m[n]]

MaxRetain == 1

InitCleanup ==
    /\ InitLocals
    /\ ctr = "running"
    /\ health = "none"
    /\ s3Configured \in BOOLEAN
    /\ synology \in {Restrict(SynologyFiles, D) : D \in SUBSET DOMAIN SynologyFiles}
    /\ s3 \in IF s3Configured
              THEN {Restrict(S3Files, D) : D \in SUBSET DOMAIN S3Files}
              ELSE {EmptyMap}
    /\ fs = InitFs
    /\ now = 1
    /\ synologyPath \in {RelativePath, HomePath}
    /\ pwd \in {RootDir, HomeDir}
    /\ retainGlobal \in 0..MaxRetain
    /\ retainService \in {[s \in Services |-> IF s = <<"app">> THEN n ELSE Unset] :
                              n \in {Unset} \cup 0..MaxRetain}
    /\ oldRetention = [global |-> retainGlobal, service |-> retainService]

NextCleanup ==
    \/ \E s \in ServiceNames \cup {AllServices} : CleanupBackups(s)
    \/ CL_NextService
    \/ CL_ListSynology
    \/ CL_DeleteSynology
    \/ CL_ListS3
    \/ CL_DeleteS3

SpecCleanup == InitCleanup /\ [][NextCleanup]_vars

----------------------------------------------------------------------------
\* The services a cleanup call works on.
InScope == IF svcName = AllServices THEN Services ELSE {svcName}

ConfiguredBackendNames == IF s3Configured THEN {"synology", "s3"} ELSE {"synology"}

BackendState(b) == IF b = "synology" THEN synology ELSE s3

Min(a, b) == IF a < b THEN a ELSE b

\* What cleanup left of a listing: the listed artifacts still on the backend.
Kept(s, b) == List(BackendState(b), s)

\* C10: after CleanupBackups has returned with success, for every service in
\* scope with effective retain count N and every configured backend, the
\* artifacts that remain under the service's name prefix are min(N, number
\* listed) of the listed artifacts, none of them older than a listed artifact
\* that is gone (an unparsable modification time is the oldest), and every
\* other listed artifact has been deleted.
C10_RetentionExact ==
    (Returned("cleanup") /\ result = "nil") =>
        \A s \in InScope : \A b \in ConfiguredBackendNames :
            /\ CountKey(s, b) \in DOMAIN listed
            /\ LET wasListed == listed[CountKey(s, b)]
                   kept == Kept(s, b)
               IN  /\ kept \subseteq wasListed
                   /\ Cardinality(kept) = Min(EffectiveRetain(s), Cardinality(wasListed))
                   /\ \A k \in kept : \A d \in wasListed \ kept :
                          ~After(parseBackupTime(d.mtime), parseBackupTime(k.mtime))

----------------------------------------------------------------------------
\* Cleanup runs with an edit of the retention settings between two of them.

\* The retention settings a configuration file can hold.
RetentionSettings ==
    [global : 0..MaxRetain,
     service : {[s \in Services |-> IF s = <<"app">> THEN n ELSE Unset] :
                   n \in {Unset} \cup 0..MaxRetain}]

\* config.LoadConfig by the next command, after the file was edited: the
\* manager of that command holds the new settings.
LoadConfig ==
    /\ pc = "returned"
    /\ opKind = "cleanup"
    /\ oldRetention = [global |-> retainGlobal, service |-> retainService]
    /\ \E c \in RetentionSettings :
          /\ c # oldRetention
          /\ retainGlobal' = c.global
          /\ retainService' = c.service
    /\ UNCHANGED <<Units, Lifecycle, Backends, Runtime, fs, now, pc, opKind, Locals, deferStart, quiesced,
                   err, result, handlerErr, calls, ops, RestoreLocals, oldRetention,
                   todo, cur, retainCount, queue, deletedCount, deletedCounts, listed>>

InitReconfigure ==
    /\ InitLocals
    /\ InitSftp
    /\ ctr = "running"
    /\ health = "none"
    /\ s3Configured \in BOOLEAN
    /\ synology = SynologyFiles
    /\ s3 = IF s3Configured THEN S3Files ELSE EmptyMap
    /\ fs = InitFs
    /\ now = 1
    /\ \E c \in RetentionSettings : retainGlobal = c.global /\ retainService = c.service
    /\ oldRetention = [global |-> retainGlobal, service |-> retainService]

NextReconfigure ==
    \/ NextCleanup
    \/ LoadConfig

SpecReconfigure == InitReconfigure /\ [][NextReconfigure]_vars

\* The loop body of CleanupBackups is running for service cur.
Cleaning ==
    /\ opKind = "cleanup"
    /\ pc \in {"cl_list_synology", "cl_delete_synology", "cl_list_s3", "cl_delete_s3"}

\* The retain count the settings gave service s before the edit.
OldRetain(s) ==
    IF oldRetention.service[s] # Unset THEN oldRetention.service[s] ELSE oldRetention.global

\* C11: while a cleanup run works on a service, the one retain count it
\* applies is the override of that service when one is set (0 included) and
\* the global default otherwise, taken from the settings in force at this
\* invocation: after an edit between two invocations the second one applies
\* the new value.
C11_RetainCountResolved ==
    Cleaning =>
        /\ retainService[cur] # Unset => retainCount = retainService[cur]
        /\ retainService[cur] = Unset => retainCount = retainGlobal

\* The second run applies an override of 0 that the edit introduced, and
\* therefore queues every listed artifact for deletion.
C11_Witness ==
    /\ Cleaning
    /\ ops = 2
    /\ pc = "cl_delete_synology"
    /\ retainService[cur] = 0
    /\ retainGlobal > 0
    /\ OldRetain(cur) # 0
    /\ retainCount = 0
    /\ Len(queue) = Cardinality(listed[CountKey(cur, "synology")])

----------------------------------------------------------------------------
\* Positions in calls of the Delete requests that returned error e.
DeletesWith(e) == {i \in CallsOf("Delete") : calls[i].err = e}

\* The successful Delete requests of the delete loop that is running: those
\* after the last List request.
LastList == CHOOSE i \in CallsOf("List") : \A j \in CallsOf("List") : j <= i

DeletedInLoop == {i \in DeletesWith("nil") : i > LastList}

\* C12: a Delete that fails with "not found" on a configured backend,
\* Synology and S3 alike, does not end the cleanup run: the run goes on with
\* the next artifact, does not count that artifact as deleted, and never
\* returns an error after such a Delete.
C12_NotFoundTolerated ==
    /\ (Returned("cleanup") /\ DeletesWith("not_found") # {}) =>
           \A i \in DeletesWith("not_found") : i = Len(calls) => result = "nil"
    /\ (opKind = "cleanup" /\ pc \in {"cl_delete_synology", "cl_delete_s3"}) =>
           deletedCount = Cardinality(DeletedInLoop)

----------------------------------------------------------------------------
\* The last request of the run failed, and not with "not found".
LastCallFailed ==
    /\ calls # <<>>
    /\ ~calls[Len(calls)].ok
    /\ calls[Len(calls)].call = "Delete" => calls[Len(calls)].err = "other"

\* The artifacts this run has deleted are not on their backend.
DeletionsStand ==
    \A i \in DeletesWith("nil") :
        calls[i].name \notin DOMAIN BackendState(calls[i].target)

\* C13: when a List request fails, or a Delete request fails with an error
\* other than "not found", CleanupBackups returns that error to its caller,
\* and every artifact the run deleted before, on any backend and for any
\* service, stays deleted.
C13_ErrorReturnedNoRollback ==
    Returned("cleanup") =>
        /\ LastCallFailed =>
              /\ calls[Len(calls)].call = "List" =>
                     result = (IF calls[Len(calls)].target = "synology"
                               THEN "list_synology" ELSE "list_s3")
              /\ calls[Len(calls)].call = "Delete" =>
                     result = (IF calls[Len(calls)].target = "synology"
                               THEN "delete_synology" ELSE "delete_s3")
        /\ DeletionsStand

\* An S3 Delete fails after the run has deleted an artifact on Synology.
C13_Witness ==
    /\ Returned("cleanup")
    /\ result = "delete_s3"
    /\ LastCallFailed
    /\ \E i \in DeletesWith("nil") : calls[i].target = "synology"
    /\ DeletionsStand

----------------------------------------------------------------------------
\* The run returned the error of a List or Delete request.
StorageErrors == {"list_synology", "delete_synology", "list_s3", "delete_s3"}

\* The service and backend whose request failed.
FailedPair == CountKey(cur, calls[Len(calls)].target)

\* C14: a List or Delete error on one backend ends the cleanup of that
\* backend only: when the run returns such an error, every other configured
\* backend of the service, and in a run over all services every backend of
\* the other services, has still been listed and cleaned.
C14_BackendsIndependent ==
    (Returned("cleanup") /\ result \in StorageErrors) =>
        \A s \in InScope : \A b \in ConfiguredBackendNames :
            CountKey(s, b) # FailedPair =>
                /\ CountKey(s, b) \in DOMAIN listed
                /\ Cardinality(Kept(s, b)) <= EffectiveRetain(s)

----------------------------------------------------------------------------
\* deletedCounts[serviceName] as the daemon job reads it: the key is the bare
\* service name, and a key that is not in the map reads as 0.
ServiceKey(s) == [name |-> s, suffix |-> ""]

Lookup(m, k) == IF k \in DOMAIN m THEN m[k] ELSE 0

\* The run deleted an artifact that a backup of service s produced.
DeletedSomeOf(s) == \E i \in DeletesWith("nil") : calls[i].name.svc = s

\* C15: when a cleanup run that returns with success has deleted at least
\* one artifact of service s, the returned map holds a positive count under
\* the key s, the bare service name.
C15_CountUnderServiceName ==
    (Returned("cleanup") /\ result = "nil") =>
        \A s \in Services :
            DeletedSomeOf(s) => Lookup(deletedCounts, ServiceKey(s)) > 0

----------------------------------------------------------------------------
\* Container lifecycle: what handleDockerContainer has just returned.

\* The stop call has returned nil to CreateBackup or RestoreBackup.
QuiesceSucceeded == pc = AfterQuiesce /\ quiesced /\ opKind \in {"backup", "restore"}

\* The stop call has returned error e.
QuiesceReturned(e) == pc = "finish" /\ handlerErr = e

\* The start request of this operation was accepted and the start call has
\* returned.
ResumeReturned ==
    /\ pc = "finish"
    /\ \E i \in CallsOf("ContainerStart") : calls[i].ok

\* The latest inspection was made by the poll loop at position l and
\* returned the State of the container.
PolledAt(l) == lastInspect # NoInspect /\ lastInspect.at = l /\ ~lastInspect.err

\* C16: quiesce issues one stop request and then polls: it returns success
\* only after an inspection reported the container as not running, returns
\* the timeout error only when no inspection reported that before the two
\* minutes were over, and returns the error of a failed stop request without
\* any inspection.
C16_QuiesceContract ==
    /\ Cardinality(CallsOf("ContainerStop")) <= 1
    /\ QuiesceSucceeded =>
          /\ PolledAt("h_stop_poll")
          /\ ~lastInspect.running
          /\ \E i \in CallsOf("ContainerStop") : calls[i].ok
    /\ QuiesceReturned("stop_timeout") =>
          /\ \E i \in CallsOf("ContainerStop") : calls[i].ok
          /\ lastInspect # NoInspect => (~lastInspect.err /\ lastInspect.running)
    /\ QuiesceReturned("stop_request") =>
          /\ lastInspect = NoInspect
          /\ ~calls[Len(calls)].ok
          /\ calls[Len(calls)].call = "ContainerStop"
    /\ (pc = "h_stop_poll" /\ lastInspect # NoInspect) =>
          (~lastInspect.err /\ lastInspect.running)

\* The wait for the stop ends with the timeout after an inspection has
\* reported the container as still running.
C16_Witness ==
    /\ QuiesceReturned("stop_timeout")
    /\ PolledAt("h_stop_poll")
    /\ lastInspect.running

----------------------------------------------------------------------------
\* The latest inspection of the running handler call returned an error.
InspectFailed == lastInspect # NoInspect /\ lastInspect.err

\* The error handleDockerContainer returns for a failed inspection at
\* position l.
InspectError(l) ==
    IF l = "h_stop_poll" THEN "stop_inspect"
    ELSE IF l = "h_health_poll" THEN "health_inspect"
    ELSE "start_inspect"

\* C17: in the stop loop, in the start loop with a health check and in the
\* start loop without one, an inspection that returns an error makes
\* handleDockerContainer return that error at once: the failed inspection is
\* the last one of the call, and no stop or start request follows it.
C17_InspectErrorAborts ==
    InspectFailed =>
        /\ pc = "finish"
        /\ handlerErr = InspectError(lastInspect.at)
        /\ calls[Len(calls)].call =
               (IF lastInspect.at = "h_stop_poll" THEN "ContainerStop" ELSE "ContainerStart")
        /\ calls[Len(calls)].ok

\* An inspection of the health loop fails.
C17_Witness ==
    /\ InspectFailed
    /\ lastInspect.at = "h_health_poll"
    /\ handlerErr = "health_inspect"
    /\ pc = "finish"

----------------------------------------------------------------------------
\* C18: the resume of a container that declares a health check returns
\* success only after an inspection of the health loop reported the status
\* "healthy", returns the "unhealthy" error as soon as such an inspection
\* reports "unhealthy", goes on polling on every other status, and returns
\* the timeout error otherwise; that the container runs is never enough.
C18_ResumeWithHealthCheck ==
    /\ (ResumeReturned /\ HasHealth) =>
          /\ handlerErr \in {"nil", "unhealthy", "start_timeout", "start_inspect",
                             "health_inspect"}
          /\ handlerErr = "nil" =>
                 (PolledAt("h_health_poll") /\ lastInspect.health = "healthy")
          /\ handlerErr = "unhealthy" =>
                 (PolledAt("h_health_poll") /\ lastInspect.health = "unhealthy")
          /\ (PolledAt("h_health_poll") /\ lastInspect.health = "unhealthy") =>
                 handlerErr = "unhealthy"
          /\ handlerErr = "start_timeout" =>
                 (PolledAt("h_health_poll") =>
                      lastInspect.health \notin {"healthy", "unhealthy"})
    /\ (pc = "h_health_poll" /\ PolledAt("h_health_poll")) =>
          lastInspect.health \notin {"healthy", "unhealthy"}
    /\ pc = "h_health_poll" => HasHealth

\* The resume times out while the container runs and its health check has
\* not passed yet.
C18_Witness ==
    /\ ResumeReturned
    /\ HasHealth
    /\ handlerErr = "start_timeout"
    /\ PolledAt("h_health_poll")
    /\ lastInspect.running
    /\ lastInspect.health = "starting"

\* C19: the resume of a container without a health check returns success
\* only after an inspection of its loop reported the running flag, returns
\* the start failure when such an inspection reports a container that does
\* not run and has a nonzero exit code, goes on polling otherwise, and then
\* ends with the timeout error.
C19_ResumeWithoutHealthCheck ==
    /\ (ResumeReturned /\ ~HasHealth) =>
          /\ handlerErr \in {"nil", "start_exit_code", "start_timeout", "start_inspect"}
          /\ handlerErr = "nil" =>
                 (PolledAt("h_run_poll") /\ lastInspect.running)
          /\ handlerErr = "start_exit_code" =>
                 (PolledAt("h_run_poll") /\ ~lastInspect.running /\ lastInspect.exit # 0)
          /\ (PolledAt("h_run_poll") /\ ~lastInspect.running /\ lastInspect.exit # 0) =>
                 handlerErr = "start_exit_code"
          /\ handlerErr = "start_timeout" =>
                 (PolledAt("h_run_poll") =>
                      (~lastInspect.running /\ lastInspect.exit = 0))
    /\ (pc = "h_run_poll" /\ PolledAt("h_run_poll")) =>
          (~lastInspect.running /\ lastInspect.exit = 0)
    /\ pc = "h_run_poll" => ~HasHealth

\* The container exits with a nonzero code right after the start.
C19_Witness ==
    /\ ResumeReturned
    /\ ~HasHealth
    /\ handlerErr = "start_exit_code"
    /\ PolledAt("h_run_poll")
    /\ lastInspect.exit # 0

----------------------------------------------------------------------------
\* The daemon: scheduled backups, and Stop at any moment.

\* Daemon.Stop: d.cancel(), then the wait for the jobs that are running. The
\* cron scheduler starts no job afterwards.
Daemon_Stop ==
    /\ ~cancelled
    /\ cancelled' = TRUE
    /\ UNCHANGED <<Units, Backends, Runtime, fs, now, pc, opKind, Locals, deferStart, quiesced,
                   err, result, handlerErr, lastInspect, calls, ops, RestoreLocals,
                   CleanupLocals>>

NextDaemon ==
    \/ NextBackup
    \/ Daemon_Stop

SpecDaemon == InitBackup /\ [][NextDaemon]_vars

\* The positions inside the three poll loops.
PollPcs == {"h_stop_poll", "h_health_poll", "h_run_poll"}

\* C20: a shutdown request that arrives while a quiesce or resume poll loop
\* is running ends that loop: a loop that made its first inspection before
\* the cancellation makes no inspection after it.
C20_CancellationEndsPolling ==
    (lastInspect # NoInspect /\ lastInspect.at \in PollPcs) =>
        ~(lastInspect.afterCancel /\ ~lastInspect.startedCancelled)

----------------------------------------------------------------------------
\* The pre-backup command of the running CreateBackup failed: it ran and
\* ended with outcome o.
PreBackupEnded(o) ==
    \E i \in CallsOf("Exec") : calls[i].outcome = o

\* The Timeout setting of the pre-backup command did not parse.
InvalidTimeout == \E i \in CallsOf("ParseDuration") : ~calls[i].ok

PreBackupFailed ==
    PreBackupEnded("exit_nonzero") \/ PreBackupEnded("timeout") \/ InvalidTimeout

\* Nothing was done after the failed command: no request to the container
\* runtime, no archive, no upload, and the backends are as they were.
AbortedBeforeQuiesce ==
    /\ CallsOf("ContainerStop") = {}
    /\ CallsOf("ContainerStart") = {}
    /\ CallsOf("Upload") = {}
    /\ archiveData = NoData
    /\ encrypted = NoData

\* C21 as stated: in each of the three cases CreateBackup returns an error
\* that carries the captured output of the command, and nothing follows.
C21_PreBackupFailureCarriesOutput ==
    (Returned("backup") /\ PreBackupFailed) =>
        /\ result # "nil"
        /\ OutputAttached(result)
        /\ AbortedBeforeQuiesce

\* C21: when the pre-backup command exits nonzero or times out, CreateBackup
\* returns an error that carries the captured output; when its timeout
\* setting is invalid the command is never run and the error carries no
\* output; in all three cases no stop request is sent, no archive is built
\* and nothing is uploaded.
C21_PreBackupFailureAborts ==
    /\ (opKind = "backup" /\ PreBackupFailed) =>
          /\ pc \in {"finish", "returned"}
          /\ err # "nil"
          /\ AbortedBeforeQuiesce
    /\ (Returned("backup") /\ PreBackupFailed) =>
          /\ result # "nil"
          /\ (PreBackupEnded("exit_nonzero") \/ PreBackupEnded("timeout")) =>
                 OutputAttached(result)
          /\ InvalidTimeout => (~OutputAttached(result) /\ CallsOf("Exec") = {})

\* The command is killed at its deadline and CreateBackup has returned.
C21_Witness ==
    /\ Returned("backup")
    /\ PreBackupEnded("timeout")
    /\ OutputAttached(result)

----------------------------------------------------------------------------
\* The three operations of the manager, called in any order with both
\* backends configured; each holds one artifact of a configured service and
\* one of a name that is not configured, and no backup is retained.
InitManager ==
    /\ InitLocals
    /\ InitRuntime
    /\ InitSftp
    /\ s3Configured = TRUE
    /\ synology = Put(OrphanOnly, Artifact, File(Encrypt(Key, Archive("v2"), 1)))
    /\ s3 = synology
    /\ fs = InitFs
    /\ now = 1
    /\ retainGlobal = 0
    /\ retainService = [s \in Services |-> Unset]
    /\ oldRetention = [global |-> retainGlobal, service |-> retainService]

\* The names the callers pass: a configured service and a name that is not
\* configured; the empty filter for a cleanup.
CallerNames == {<<"app">>, <<"web">>}

NextManager ==
    \/ \E s \in CallerNames : CreateBackup(s)
    \/ CB_PreBackup
    \/ CB_Docker
    \/ CB_Archive
    \/ CB_Encrypt
    \/ CB_Stage
    \/ CB_UploadSynology
    \/ CB_UploadS3
    \/ \E s \in CallerNames :
          \E n \in DOMAIN synology \cup DOMAIN s3 \cup {Missing} : RestoreBackup(s, n)
    \/ RB_Mkdir
    \/ RB_DownloadSynology
    \/ RB_DownloadS3
    \/ RB_Read
    \/ RB_Decrypt
    \/ RB_Docker
    \/ RB_Extract
    \/ \E s \in CallerNames \cup {AllServices} : CleanupBackups(s)
    \/ CL_NextService
    \/ CL_ListSynology
    \/ CL_DeleteSynology
    \/ CL_ListS3
    \/ CL_DeleteS3
    \/ Handler

SpecManager == InitManager /\ [][NextManager]_vars

\* The running operation is a call of the manager with a service name that
\* is not a key of config.Services (RestoreBackup: called directly with a
\* backup name, not through the restore command's listing).
UnknownService ==
    /\ opKind \in {"backup", "restore", "cleanup"}
    /\ svcName \notin Services
    /\ svcName # AllServices
    /\ opKind = "restore" => (selected = NoSelection /\ backupName # NoName)

\* C22: CreateBackup, RestoreBackup and CleanupBackups called with a service
\* name that is not configured return the not-found error at once and
\* without any request: no command, no stop or start, no Upload, Download,
\* List or Delete, and the service trees are untouched.
C22_UnknownServiceNoEffect ==
    UnknownService =>
        /\ pc = "returned"
        /\ result = "service_not_found"
        /\ calls = <<>>
        /\ fs = fsBefore
        /\ opKind = "cleanup" => deletedCounts = EmptyMap

\* A cleanup for a name that is not configured has returned.
C22_Witness ==
    /\ UnknownService
    /\ Returned("cleanup")
    /\ result = "service_not_found"
    /\ DOMAIN synology # {}

----------------------------------------------------------------------------
\* The artifacts of a backend: the names a successful upload has stored
\* (a broken transfer leaves no artifact, only a truncated file).
Artifacts(backend) ==
    {n \in DOMAIN backend : IsCiphertext(backend[n].data) /\ backend[n].data.intact}

\* C30: an artifact once uploaded is never overwritten: the name under which
\* CreateBackup is about to upload is not the name of an artifact the
\* backend already holds, so that two successful runs, also two runs of one
\* service within the same second, leave two artifacts on each backend.
C30_ArtifactNeverOverwritten ==
    opKind = "backup" =>
        /\ pc = "cb_upload_synology" => backupName \notin Artifacts(synology)
        /\ (pc = "cb_upload_s3" /\ s3Configured) => backupName \notin Artifacts(s3)

----------------------------------------------------------------------------
\* createArchive and extractArchive on file trees.
\*
\* A relative path is the sequence of its segments, "a/b" is <<"a", "b">>,
\* and "." (filepath.Rel of the source directory itself) is <<".">>.  A
\* pattern is the sequence of its segments; "*" and "**" are doublestar's.
Dot == <<".">>

\* A tree: relative path -> [type, data]; data is the content of a regular
\* file and the target of a symlink.
Dir == [type |-> "dir", data |-> ""]
EmptyTree == [p \in {Dot} |-> Dir]

NameOrder == <<"a", "b">>
AllPaths == {<<"a">>, <<"b">>, <<"a", "a">>, <<"a", "b">>}
Targets == {"a", "t"}

Entries ==
    {Dir, [type |-> "char", data |-> ""]}
        \cup {[type |-> "reg", data |-> c] : c \in Contents}
        \cup {[type |-> "symlink", data |-> t] : t \in Targets}

\* filepath.Dir of a relative path.
Parent(path) == IF Len(path) <= 1 THEN Dot ELSE SubSeq(path, 1, Len(path) - 1)

\* filepath.Join(dir, name)
Child(dir, name) == IF dir = Dot THEN <<name>> ELSE Append(dir, name)

\* The trees a service path may hold: every object lies in a directory.
Trees ==
    {t \in UNION {[D \cup {Dot} -> Entries] : D \in SUBSET AllPaths} :
        /\ t[Dot] = Dir
        /\ \A p \in DOMAIN t : Parent(p) \in DOMAIN t /\ t[Parent(p)] = Dir}

\* doublestar.Match(pattern, name): "**" stands for any number of segments,
\* "*" for any one segment, every other segment for itself.
RECURSIVE Match(_, _)
Match(pattern, name) ==
    IF pattern = <<>> THEN name = <<>>
    ELSE IF Head(pattern) = "**"
         THEN Match(Tail(pattern), name)
                 \/ (name # <<>> /\ Match(pattern, Tail(name)))
         ELSE /\ name # <<>>
              /\ Head(pattern) \in {"*", Head(name)}
              /\ Match(Tail(pattern), Tail(name))

\* The inner loop of isExcluded: for dir != "." { dir = filepath.Dir(dir);
\* match dir }.
RECURSIVE ParentMatches(_, _)
ParentMatches(pattern, dir) ==
    IF dir = Dot THEN FALSE
    ELSE Match(pattern, Parent(dir)) \/ ParentMatches(pattern, Parent(dir))

\* Variant of isExcluded: only the path itself is matched.
isExcluded_PathOnly(path, patterns) ==
    \E i \in DOMAIN patterns : Match(patterns[i], path)

\* isExcluded(path, excludePatterns)
isExcluded(path, patterns) ==
    \E i \in DOMAIN patterns :
        Match(patterns[i], path) \/ ParentMatches(patterns[i], path)

\* tar.FileInfoHeader(info, info.Name()) with header.Name = relPath: the
\* link argument, the base name of the object, becomes the Linkname of a
\* symlink; the content follows the header of a regular file.
FileInfoHeader(tree, path) ==
    [name |-> path,
     typeflag |-> tree[path].type,
     linkname |-> IF tree[path].type = "symlink" THEN path[Len(path)] ELSE "",
     content |-> IF tree[path].type = "reg" THEN tree[path].data ELSE ""]

\* filepath.Walk with the callback of createArchive: lexical order; an
\* excluded directory is skipped with its subtree (filepath.SkipDir), an
\* excluded file is left out.
RECURSIVE Walk(_, _, _)
RECURSIVE WalkChildren(_, _, _, _)
Walk(tree, patterns, path) ==
    IF isExcluded(path, patterns) THEN <<>>
    ELSE <<FileInfoHeader(tree, path)>> \o
         (IF tree[path].type = "dir" THEN WalkChildren(tree, patterns, path, 1) ELSE <<>>)

WalkChildren(tree, patterns, dir, i) ==
    IF i > Len(NameOrder) THEN <<>>
    ELSE (IF Child(dir, NameOrder[i]) \in DOMAIN tree
          THEN Walk(tree, patterns, Child(dir, NameOrder[i]))
          ELSE <<>>) \o WalkChildren(tree, patterns, dir, i + 1)

\* service.Path: "/srv/app" and "/srv/app-db", as segments and name tokens.
ServicePath(s) == <<"srv">> \o s

\* strings.HasPrefix(sourcePath, service.Path)
PathHasPrefix(sourcePath, path) ==
    /\ Len(sourcePath) >= Len(path)
    /\ SubSeq(sourcePath, 1, Len(path)) = path

\* The loop over m.config.Services in createArchive: the range over the map
\* takes the services in any order and stops at the first whose path is a
\* prefix of sourcePath.
PatternCandidates(sourcePath) ==
    {exclude[t] : t \in {u \in Services : PathHasPrefix(sourcePath, ServicePath(u))}}

\* os.MkdirAll(dir): dir and the missing directories above it.
RECURSIVE MkdirAll(_, _)
MkdirAll(tree, dir) ==
    IF dir \in DOMAIN tree THEN tree
    ELSE Put(MkdirAll(tree, Parent(dir)), dir, Dir)

\* The typeflags extractArchive has a case for, and those among them whose
\* case is a bare continue.
Handled == {"dir", "reg", "symlink", "link", "char", "block", "fifo"}
Skipped == {"char", "block"}

\* The directory that holds destPath, seen from destPath.
Outside == <<"..">>

\* filepath.Base
Base(path) == path[Len(path)]

\* The segments of a link name.
Segments(linkname) ==
    IF linkname = "../s" THEN <<"..", "s">> ELSE <<linkname>>

\* filepath.Join(base, rest...), which cleans the result: "." is dropped and
\* ".." takes the last segment off, or leads out of destPath.
RECURSIVE JoinOnto(_, _)
JoinOnto(base, rest) ==
    IF rest = <<>> THEN base
    ELSE JoinOnto(IF Head(rest) = "." THEN base
                  ELSE IF Head(rest) # ".." THEN Child(base, Head(rest))
                  ELSE IF base = Dot THEN Outside
                  ELSE IF Base(base) = ".." THEN Append(base, "..")
                  ELSE Parent(base),
                  Tail(rest))

\* target := filepath.Join(destPath, header.Name), relative to destPath.
Join(name) == JoinOnto(Dot, name)

\* A path whose resolution met too many symlinks (ELOOP).
Loop == <<"loop">>
MaxLinks == 2

\* The object the operating system reaches for a path when it follows the
\* symlinks on the way and at the end.
RECURSIVE RealPath(_, _, _)
RealPath(tree, path, links) ==
    IF path = Dot THEN Dot
    ELSE LET dir == RealPath(tree, Parent(path), links)
             at == JoinOnto(dir, <<Base(path)>>)
         IN  IF dir = Loop THEN Loop
             ELSE IF at \in DOMAIN tree /\ tree[at].type = "symlink"
                  THEN IF links = 0 THEN Loop
                       ELSE RealPath(tree, JoinOnto(dir, Segments(tree[at].data)), links - 1)
                  ELSE at

\* The same without following a symlink at the end (os.Remove, os.Symlink,
\* os.Link, unix.Mkfifo).
EntryPath(tree, path) ==
    LET dir == RealPath(tree, Parent(path), MaxLinks)
    IN  IF dir = Loop THEN Loop ELSE JoinOnto(dir, <<Base(path)>>)

\* Something that is not a directory stands at the path or above it.
Blocked(tree, path) ==
    \E k \in 1..Len(path) :
        /\ SubSeq(path, 1, k) \in DOMAIN tree
        /\ tree[SubSeq(path, 1, k)].type # "dir"

\* A directory that still holds something.
NotEmpty(tree, path) ==
    \E q \in DOMAIN tree :
        /\ q # Dot
        /\ Len(q) > Len(path)
        /\ path = Dot \/ SubSeq(q, 1, Len(path)) = path

Failed(e, tree) == [err |-> e, tree |-> tree]
Done(tree) == [err |-> "nil", tree |-> tree]

\* os.MkdirAll(path) with its error: nothing to do for a directory, also
\* one reached through symlinks; an error when a file or a dangling symlink
\* is in the way.
MkdirAllAt(tree, path) ==
    LET real == RealPath(tree, path, MaxLinks)
    IN  IF real = Loop \/ Blocked(tree, real) \/
           (real \notin DOMAIN tree /\ EntryPath(tree, path) \in DOMAIN tree)
        THEN Failed("mkdir", tree)
        ELSE Done(MkdirAll(tree, real))

\* os.Remove(target) with "does not exist" tolerated, then the creation of
\* the object at target.
Replace(tree, path, object, e) ==
    LET at == EntryPath(tree, path)
    IN  IF at = Loop \/ at = Dot \/ (at \in DOMAIN tree /\ NotEmpty(tree, at))
        THEN Failed(e, tree)
        ELSE Done(Put(tree, at, object))

\* os.OpenFile(target, O_CREATE|O_RDWR|O_TRUNC) and io.Copy: a symlink at
\* target is followed.
WriteFile(tree, path, content) ==
    LET at == RealPath(tree, path, MaxLinks)
    IN  IF at = Loop \/ (at \in DOMAIN tree /\ tree[at].type = "dir") \/
           Parent(at) \notin DOMAIN tree
        THEN Failed("create_file", tree)
        ELSE Done(Put(tree, at, [type |-> "reg", data |-> content]))

\* os.Link(filepath.Join(destPath, header.Linkname), target)
LinkFile(tree, linkname, path) ==
    LET from == EntryPath(tree, Join(Segments(linkname)))
    IN  IF from = Loop \/ from \notin DOMAIN tree \/ tree[from].type = "dir"
        THEN Failed("link", tree)
        ELSE Replace(tree, path, tree[from], "link")

\* One pass of the loop of extractArchive over header h: the tree it leaves
\* and the error it returns with.
ExtractEntry(tree, h) ==
    LET target == Join(h.name)
        made == MkdirAllAt(tree, Parent(target))
    IN  IF made.err # "nil" THEN made
        ELSE IF h.typeflag \notin Handled THEN Failed("unsupported_type", made.tree)
        ELSE IF h.typeflag = "dir" THEN MkdirAllAt(made.tree, target)
        ELSE IF h.typeflag = "reg" THEN WriteFile(made.tree, target, h.content)
        ELSE IF h.typeflag = "symlink"
             THEN Replace(made.tree, target,
                          [type |-> "symlink", data |-> h.linkname], "symlink")
        ELSE IF h.typeflag = "link" THEN LinkFile(made.tree, h.linkname, target)
        ELSE IF h.typeflag = "fifo"
             THEN Replace(made.tree, target, [type |-> "fifo", data |-> ""], "fifo")
        ELSE made

\* extractArchive(input, destPath) from entry i on: the tree under destPath
\* and the error returned. An entry that fails ends the loop; what the
\* entries before it wrote stays.
RECURSIVE Extract(_, _, _)
Extract(tree, archive, i) ==
    IF i > Len(archive) THEN Done(tree)
    ELSE LET out == ExtractEntry(tree, archive[i])
         IN  IF out.err # "nil" THEN out
             ELSE Extract(out.tree, archive, i + 1)

\* Archives of another origin: one entry of a type tar knows and
\* extractArchive has no case for, after a regular file.
ForeignArchives ==
    {<<[name |-> <<"a">>, typeflag |-> "reg", linkname |-> "", content |-> "v1"],
       [name |-> <<"b">>, typeflag |-> t, linkname |-> "", content |-> ""]>> :
        t \in {"cont", "fifo"}}

\* createArchive(service.Path, archiveData), as CreateBackup calls it.
createArchive(serviceName) ==
    /\ CanStart
    /\ ops' = ops + 1
    /\ opKind' = "archive"
    /\ svcName' = serviceName
    /\ fsBefore' = fs
    /\ destTree' = EmptyTree
    /\ \E patterns \in PatternCandidates(ServicePath(serviceName)) :
          /\ excludePatterns' = patterns
          /\ archiveData' = Walk(fs[serviceName], patterns, Dot)
    /\ pc' = "ar_created"
    /\ err' = "nil"
    /\ result' = "pending"
    /\ UNCHANGED <<Lifecycle, Backends, Runtime, fs, now, backupName, encrypted, localFile,
                   deferStart, quiesced, handlerErr, calls, selected, source, CleanupLocals,
                   exclude, cryptoLog, daemon, workers>>

\* An archive that createArchive did not write is handed to extractArchive.
ReceiveArchive ==
    /\ CanStart
    /\ ops' = ops + 1
    /\ opKind' = "archive"
    /\ svcName' = <<>>
    /\ fsBefore' = fs
    /\ destTree' = EmptyTree
    /\ excludePatterns' = <<>>
    /\ archiveData' \in ForeignArchives
    /\ pc' = "ar_created"
    /\ err' = "nil"
    /\ result' = "pending"
    /\ UNCHANGED <<Lifecycle, Backends, Runtime, fs, now, backupName, encrypted, localFile,
                   deferStart, quiesced, handlerErr, calls, selected, source, CleanupLocals,
                   exclude, cryptoLog, daemon, workers>>

\* Variant of extractArchive: an entry without a case ends the extraction
\* without an error.
extractArchive_SkipsUnknown ==
    /\ pc = "ar_created"
    /\ LET out == Extract(destTree, archiveData, 1)
       IN  /\ destTree' = out.tree
           /\ err' = "nil"
           /\ result' = "nil"
    /\ pc' = "returned"
    /\ UNCHANGED <<Lifecycle, Backends, Runtime, fs, now, opKind, Locals, deferStart, quiesced,
                   handlerErr, calls, ops, RestoreLocals, CleanupLocals, exclude,
                   excludePatterns, cryptoLog, daemon, workers>>

\* extractArchive(bytes.NewReader(archiveData), destPath) into an empty
\* destination.
extractArchive ==
    /\ pc = "ar_created"
    /\ LET out == Extract(destTree, archiveData, 1)
       IN  /\ destTree' = out.tree
           /\ err' = out.err
           /\ result' = out.err
    /\ pc' = "returned"
    /\ UNCHANGED <<Lifecycle, Backends, Runtime, fs, now, opKind, Locals, deferStart, quiesced,
                   handlerErr, calls, ops, RestoreLocals, CleanupLocals, exclude,
                   excludePatterns, cryptoLog, daemon, workers>>

\* The exclusion lists a configuration may hold.
Patterns ==
    {<<"a">>, <<"b">>, <<"*">>, <<"**">>, <<".">>, <<"a", "b">>, <<"a", "*">>,
     <<"*", "b">>, <<"**", "b">>, <<"a", "**">>}

PatternLists == {<<>>, <<<<"b">>, <<"a", "a">>>>} \cup {<<p>> : p \in Patterns}

\* No operation has run yet.
InitIdle ==
    /\ excludePatterns = <<>>
    /\ destTree = EmptyTree
    /\ cryptoLog = <<>>
    /\ daemon = NoDaemon
    /\ workers = [w \in Workers |-> NoWorker]
    /\ pc = "idle"
    /\ opKind = "none"
    /\ svcName = <<>>
    /\ backupName = NoName
    /\ archiveData = <<>>
    /\ encrypted = NoData
    /\ localFile = NoData
    /\ deferStart = FALSE
    /\ quiesced = FALSE
    /\ err = "nil"
    /\ result = "none"
    /\ handlerErr = "nil"
    /\ calls = <<>>
    /\ ops = 0
    /\ lastInspect = NoInspect
    /\ cancelled = FALSE
    /\ selected = NoSelection
    /\ source = "none"
    /\ todo = {}
    /\ cur = <<>>
    /\ retainCount = 0
    /\ queue = <<>>
    /\ deletedCount = 0
    /\ deletedCounts = EmptyMap
    /\ listed = EmptyMap
    /\ InitRuntime
    /\ InitSftp
    /\ InitRetention
    /\ synology = EmptyMap
    /\ s3 = EmptyMap
    /\ s3Configured = FALSE
    /\ now = 1

\* Any tree under both service paths, any exclusion list for "app", none or
\* one for "app-db".
InitArchive ==
    /\ \E t \in Trees : fs = [s \in Services |-> t]
    /\ fsBefore = fs
    /\ exclude \in {[s \in Services |-> IF s = <<"app">> THEN l ELSE m] :
                       l \in PatternLists, m \in {<<>>, <<<<"b">>>>}}
    /\ InitIdle

NextArchive ==
    \/ \E s \in Services : createArchive(s)
    \/ ReceiveArchive
    \/ extractArchive

SpecArchive == InitArchive /\ [][NextArchive]_vars

----------------------------------------------------------------------------
\* The ancestor directories of a relative path: its proper prefixes and the
\* directory "." they all lie in.
Ancestors(path) ==
    IF path = Dot THEN {}
    ELSE {Dot} \cup {SubSeq(path, 1, k) : k \in 1..(Len(path) - 1)}

\* Some pattern of the list matches the path.
MatchesSome(patterns, path) == \E i \in DOMAIN patterns : Match(patterns[i], path)

\* The service an archive has just been created for.
Archived(s) == opKind = "archive" /\ pc = "ar_created" /\ svcName = s

\* The names of the entries of an archive.
EntryNames(archive) == {archive[i].name : i \in DOMAIN archive}

\* C23: a path is excluded exactly when the path or one of its ancestor
\* directories matches a pattern; hence whatever lies in an excluded
\* directory is excluded, and the archive createArchive writes has one entry
\* for every object of the tree that is not excluded and no other entry.
C23_ExclusionCoversSubtree ==
    /\ \A s \in Services : \A p \in AllPaths \cup {Dot} :
          /\ isExcluded(p, exclude[s]) <=>
                 \E q \in {p} \cup Ancestors(p) : MatchesSome(exclude[s], q)
          /\ \A q \in Ancestors(p) : isExcluded(q, exclude[s]) => isExcluded(p, exclude[s])
    /\ \A s \in Services : Archived(s) =>
          /\ EntryNames(archiveData) =
                 {p \in DOMAIN fs[s] : ~isExcluded(p, excludePatterns)}
          /\ \A i, j \in DOMAIN archiveData :
                 archiveData[i].name = archiveData[j].name => i = j

\* A directory is matched by the pattern, a file in it is not, and the
\* archive has neither.
C23_Witness ==
    /\ Archived(<<"app">>)
    /\ excludePatterns = <<<<"a">>>>
    /\ <<"a", "b">> \in DOMAIN fs[<<"app">>]
    /\ <<"a", "b">> \notin EntryNames(archiveData)
    /\ <<"b">> \in EntryNames(archiveData)

\* C24: the archive CreateBackup builds for a service is filtered with the
\* exclusion patterns configured for that service.
C24_OwnExclusionPatterns ==
    \A s \in Services : Archived(s) => excludePatterns = exclude[s]

\* The tree holds regular files, directories and symlinks only.
Plain(tree) == \A p \in DOMAIN tree : tree[p].type \in {"reg", "dir", "symlink"}

\* C25: without exclusions, extracting the archive of a tree of regular
\* files, directories and symlinks into an empty destination gives the same
\* paths, types, contents and symlink targets.
C25_ArchiveRoundTrip ==
    \A s \in Services :
        (Returned("archive") /\ svcName = s /\ excludePatterns = <<>> /\ Plain(fsBefore[s])) =>
            /\ result = "nil"
            /\ destTree = fsBefore[s]

\* C26: extractArchive fails whenever the archive holds an entry that is not
\* a regular file, a directory, a symlink, a hard link or a FIFO.
C26_UnsupportedTypeIsFatal ==
    (Returned("archive") /\
     \E i \in DOMAIN archiveData :
        archiveData[i].typeflag \notin {"reg", "dir", "symlink", "link", "fifo"}) =>
        result # "nil"

----------------------------------------------------------------------------
\* Package crypto on byte strings.
\*
\* A byte string is a sequence; the bytes AES-GCM produces are kept as what
\* they were made from: a byte of the nonce, a byte of the sealed plaintext
\* (key, nonce, position, plain byte) and the authentication tag (key,
\* nonce, the plaintext it covers).  A byte that was altered is "junk".

\* gcm.NonceSize(), scaled down from 12.
NonceSize == 2

Plaintexts == {<<>>, <<"x">>, <<"x", "y">>}
Passwords == {"pw1", "pw2"}

\* A key of a length aes.NewCipher rejects.
ShortKey == "short"
Keys == {Key, OtherKey, ShortKey}

\* aes.NewCipher(key) succeeds.
ValidKey(key) == key \in {Key, OtherKey}

\* What io.ReadFull(rand.Reader, nonce) may fill in.
Nonce(r) == [i \in 1..NonceSize |-> [kind |-> "nonce", v |-> r]]
Nonces == {Nonce(r) : r \in 0..MaxNonce}

Junk == [kind |-> "junk"]

\* gcm.Seal(nil, nonce, plaintext, nil): the sealed bytes, then the tag.
Seal(key, nonce, plaintext) ==
    [i \in 1..Len(plaintext) |->
        [kind |-> "ct", k |-> key, n |-> nonce, pos |-> i, b |-> plaintext[i]]]
        \o <<[kind |-> "tag", k |-> key, n |-> nonce, mac |-> plaintext]>>

\* The plaintext bytes under the sealed bytes.
Unsealed(body) == [i \in 1..(Len(body) - 1) |-> body[i].b]

\* gcm.Open(nil, nonce, body, nil) succeeds: body is what Seal gives under
\* this key and nonce for the bytes it holds.
Opens(key, nonce, body) ==
    /\ Len(body) >= 1
    /\ \A i \in 1..(Len(body) - 1) : body[i].kind = "ct"
    /\ body = Seal(key, nonce, Unsealed(body))

\* Variant of EncryptBytes: gcm.Seal(nil, nonce, plaintext, nil), the nonce
\* is not put in front.
EncryptBytes_NonceDropped(key, plaintext, nonce) ==
    IF ~ValidKey(key) THEN [err |-> "cipher", out |-> <<>>]
    ELSE [err |-> "nil", out |-> Seal(key, nonce, plaintext)]

\* crypto.Encrypt(key, plaintext) with the nonce it drew:
\* gcm.Seal(nonce, nonce, plaintext, nil).
EncryptBytes(key, plaintext, nonce) ==
    IF ~ValidKey(key) THEN [err |-> "cipher", out |-> <<>>]
    ELSE [err |-> "nil", out |-> nonce \o Seal(key, nonce, plaintext)]

\* Variant of DecryptBytes: the bytes are deciphered and the tag is not
\* verified.
DecryptBytes_Unauthenticated(key, ciphertext) ==
    IF ~ValidKey(key) THEN [err |-> "cipher", out |-> <<>>]
    ELSE IF Len(ciphertext) < NonceSize THEN [err |-> "too_short", out |-> <<>>]
    ELSE LET body == SubSeq(ciphertext, NonceSize + 1, Len(ciphertext))
         IN  [err |-> "nil",
              out |-> [i \in 1..(Len(body) - 1) |->
                          IF body[i].kind = "ct" /\ body[i].k = key
                          THEN body[i].b ELSE "?"]]

\* crypto.Decrypt(key, ciphertext)
DecryptBytes(key, ciphertext) ==
    IF ~ValidKey(key) THEN [err |-> "cipher", out |-> <<>>]
    ELSE IF Len(ciphertext) < NonceSize THEN [err |-> "too_short", out |-> <<>>]
    ELSE LET nonce == SubSeq(ciphertext, 1, NonceSize)
             body == SubSeq(ciphertext, NonceSize + 1, Len(ciphertext))
         IN  IF Opens(key, nonce, body)
             THEN [err |-> "nil", out |-> Unsealed(body)]
             ELSE [err |-> "decrypt", out |-> <<>>]

\* generateDeterministicSalt(password): the first SaltSize bytes of the
\* SHA-256 of the password.
generateDeterministicSalt(password) == [sha256 |-> password]

\* argon2.IDKey(password, salt, Iterations, Memory, Parallelism, KeySize)
IDKey(password, salt) == [argon2 |-> password, salt |-> salt]

\* Variant of DeriveKey: a fresh random salt for every call.
DeriveKey_RandomSalt(password, random) ==
    [key |-> IDKey(password, [random |-> random]), salt |-> [random |-> random]]

\* DeriveKey(password); the random source is at hand and not read.
DeriveKey(password, random) ==
    LET salt == generateDeterministicSalt(password)
    IN  [key |-> IDKey(password, salt), salt |-> salt]

\* RecreateKey(password, salt)
RecreateKey(password, salt) == IDKey(password, salt)

\* One call of the package: the function, its arguments and what it returned.
LogCall(fn, key, in, e, out) ==
    [fn |-> fn, key |-> key, in |-> in, err |-> e, out |-> out]

\* What a call of the package leaves alone.
OutsideCrypto ==
    <<Lifecycle, Backends, Runtime, fs, now, pc, opKind, Locals, deferStart,
      quiesced, err, result, handlerErr, calls, RestoreLocals, CleanupLocals,
      exclude, excludePatterns, destTree, daemon, workers>>

CallEncrypt ==
    \E key \in Keys, plaintext \in Plaintexts, nonce \in Nonces :
        /\ CanStart
        /\ ops' = ops + 1
        /\ cryptoLog' =
              LET r == EncryptBytes(key, plaintext, nonce)
              IN  Append(cryptoLog, LogCall("Encrypt", key, plaintext, r.err, r.out))
        /\ UNCHANGED OutsideCrypto

\* What a caller may hand to Decrypt: a ciphertext Encrypt returned, as it
\* is, with one byte altered, or cut short.
Ciphertexts == {cryptoLog[i].out : i \in {j \in DOMAIN cryptoLog : cryptoLog[j].fn = "Encrypt"}}

Altered(c) == {[c EXCEPT ![i] = Junk] : i \in DOMAIN c}
CutShort(c) == {SubSeq(c, 1, k) : k \in 0..(Len(c) - 1)}

DecryptInputs ==
    {<<>>} \cup Ciphertexts \cup UNION {Altered(c) \cup CutShort(c) : c \in Ciphertexts}

CallDecrypt ==
    \E key \in Keys, ciphertext \in DecryptInputs :
        /\ CanStart
        /\ ops' = ops + 1
        /\ cryptoLog' =
              LET r == DecryptBytes(key, ciphertext)
              IN  Append(cryptoLog, LogCall("Decrypt", key, ciphertext, r.err, r.out))
        /\ UNCHANGED OutsideCrypto

CallDeriveKey ==
    \E password \in Passwords, random \in 0..MaxNonce :
        /\ CanStart
        /\ ops' = ops + 1
        /\ cryptoLog' = Append(cryptoLog, LogCall("DeriveKey", "", password, "nil",
                                                  DeriveKey(password, random)))
        /\ UNCHANGED OutsideCrypto

CallRecreateKey ==
    \E password \in Passwords, of \in Passwords :
        /\ CanStart
        /\ ops' = ops + 1
        /\ cryptoLog' =
              LET salt == generateDeterministicSalt(of)
              IN  Append(cryptoLog,
                         LogCall("RecreateKey", "", [password |-> password, salt |-> salt],
                                 "nil", RecreateKey(password, salt)))
        /\ UNCHANGED OutsideCrypto

InitCrypto ==
    /\ InitBackup
    /\ s3Configured = FALSE
    /\ health = "none"

NextCrypto ==
    \/ CallEncrypt
    \/ CallDecrypt
    \/ CallDeriveKey
    \/ CallRecreateKey

SpecCrypto == InitCrypto /\ [][NextCrypto]_vars

\* The calls of one function in the log.
LogOf(fn) == {i \in DOMAIN cryptoLog : cryptoLog[i].fn = fn}

\* C27: for a valid key, Encrypt returns the nonce followed by the AEAD
\* output, and Decrypt under the same key returns the plaintext without
\* error, whatever the nonce was.
C27_DecryptInvertsEncrypt ==
    /\ \A i \in LogOf("Encrypt") :
          ValidKey(cryptoLog[i].key) =>
              /\ cryptoLog[i].err = "nil"
              /\ \E nonce \in Nonces :
                    cryptoLog[i].out =
                        nonce \o Seal(cryptoLog[i].key, nonce, cryptoLog[i].in)
    /\ \A i \in LogOf("Encrypt"), j \in LogOf("Decrypt") :
          (/\ ValidKey(cryptoLog[i].key)
           /\ cryptoLog[j].key = cryptoLog[i].key
           /\ cryptoLog[j].in = cryptoLog[i].out) =>
              /\ cryptoLog[j].err = "nil"
              /\ cryptoLog[j].out = cryptoLog[i].in

\* A two-byte plaintext came back from Decrypt.
C27_Witness ==
    \E i \in LogOf("Encrypt"), j \in LogOf("Decrypt") :
        /\ cryptoLog[j].in = cryptoLog[i].out
        /\ cryptoLog[j].key = cryptoLog[i].key
        /\ cryptoLog[j].err = "nil"
        /\ cryptoLog[j].out = <<"x", "y">>

\* c is what Encrypt returns for plaintext p under key k and some nonce.
Genuine(k, p, c) ==
    /\ ValidKey(k)
    /\ \E nonce \in Nonces : c = EncryptBytes(k, p, nonce).out

\* C28: Decrypt returns an error and no plaintext when the input is shorter
\* than a nonce, was produced under another key, or is an altered or
\* truncated ciphertext; a plaintext it returns is the one that was
\* encrypted.
C28_DecryptRejectsForgery ==
    \A j \in LogOf("Decrypt") :
        /\ Len(cryptoLog[j].in) < NonceSize => cryptoLog[j].err # "nil"
        /\ cryptoLog[j].err # "nil" => cryptoLog[j].out = <<>>
        /\ cryptoLog[j].err = "nil" =>
              Genuine(cryptoLog[j].key, cryptoLog[j].out, cryptoLog[j].in)
        /\ \A i \in LogOf("Encrypt") :
              cryptoLog[i].err = "nil" =>
                  /\ (cryptoLog[j].in = cryptoLog[i].out
                        /\ cryptoLog[j].key # cryptoLog[i].key) =>
                         cryptoLog[j].err # "nil"
                  /\ cryptoLog[j].in \in
                        Altered(cryptoLog[i].out) \cup CutShort(cryptoLog[i].out) =>
                         cryptoLog[j].err # "nil"

\* A ciphertext whose tag was cut off is refused under the right key.
C28_Witness ==
    \E i \in LogOf("Encrypt"), j \in LogOf("Decrypt") :
        /\ cryptoLog[i].err = "nil"
        /\ cryptoLog[j].key = cryptoLog[i].key
        /\ Len(cryptoLog[i].in) = 1
        /\ cryptoLog[j].in = SubSeq(cryptoLog[i].out, 1, NonceSize + 1)
        /\ cryptoLog[j].err = "decrypt"

----------------------------------------------------------------------------
\* The Delete requests of the running operation that removed a file.
Removals == {i \in DOMAIN calls : calls[i].call = "Delete" /\ calls[i].ok}

\* C34: CleanupBackups for one service removes only artifacts that backups
\* of that service produced, also when another service's name starts with
\* the name followed by "-".
C34_CleanupDeletesOwnArtifacts ==
    (opKind = "cleanup" /\ svcName \in Services) =>
        \A i \in Removals : calls[i].name.svc = svcName

----------------------------------------------------------------------------
\* Properties of the deferred resume, checked under SpecManager.

\* What the deferred handleDockerContainer(.., false) can return as an error.
StartErrors ==
    {"start_request", "start_inspect", "start_timeout", "health_inspect",
     "unhealthy", "start_exit_code"}

\* The running operation is a backup or a restore that has returned.
PipelineReturned == Returned("backup") \/ Returned("restore")

\* Every upload the backup had to make was made and succeeded.
UploadsSucceeded ==
    /\ Len(Uploads) = ConfiguredBackends
    /\ \A i \in DOMAIN Uploads : Uploads[i].ok

\* C35: the result of CreateBackup and RestoreBackup is the error of the
\* pipeline step that ended it, nil when every step succeeded, whatever the
\* deferred resume returns: a failed, timed-out or unhealthy start is not
\* reported to the caller.
C35_ResultIgnoresResume ==
    (PipelineReturned /\ quiesced) =>
        /\ result = err
        /\ result \notin StartErrors
        /\ (Returned("backup") /\ UploadsSucceeded) => result = "nil"

\* A restore returned success and the container did not start again.
C35_Witness ==
    /\ Returned("restore")
    /\ quiesced
    /\ result = "nil"
    /\ fs[svcName] = archiveData.tree
    /\ handlerErr \in StartErrors
    /\ ~Running

\* The stop request of the running operation was accepted.
StopAccepted == \E i \in CallsOf("ContainerStop") : calls[i].ok

\* C36: when the quiesce fails after the stop request was accepted (the
\* timeout of the wait, or an inspection error while polling), CreateBackup
\* and RestoreBackup return that error and issue no start request.
C36_FailedQuiesceNoResume ==
    (PipelineReturned /\ result \in {"stop_timeout", "stop_inspect"}) =>
        /\ StopAccepted
        /\ ~quiesced
        /\ handlerErr = result
        /\ CallsOf("ContainerStart") = {}

\* A backup returned the timeout of the quiesce and left the container
\* stopped.
C36_Witness ==
    /\ Returned("backup")
    /\ result = "stop_timeout"
    /\ StopAccepted
    /\ CallsOf("ContainerStart") = {}
    /\ ctr = "stopped"

----------------------------------------------------------------------------
\* extractArchive into a service path that holds something, as RestoreBackup
\* calls it.

\* A file next to destPath.
OutsideFile == <<"..", "s">>

\* What the service path and the directory that holds it may contain when a
\* restore starts.
Destinations ==
    {t \in UNION {[D \cup {Dot, Outside, OutsideFile} ->
                      {Dir, [type |-> "reg", data |-> "v1"]}
                          \cup {[type |-> "symlink", data |-> l] : l \in {"b", ".."}}] :
                  D \in SUBSET {<<"a">>, <<"b">>, <<"a", "b">>}} :
        /\ t[Dot] = Dir
        /\ t[Outside] = Dir
        /\ t[OutsideFile].type = "reg"
        /\ \A p \in DOMAIN t \ {Dot, Outside} :
              Parent(p) \in DOMAIN t /\ t[Parent(p)] = Dir
        /\ <<"b">> \in DOMAIN t => t[<<"b">>].type # "symlink"
        /\ <<"a", "b">> \in DOMAIN t => t[<<"a", "b">>].type = "reg"}

Header(name, typeflag, linkname, content) ==
    [name |-> name, typeflag |-> typeflag, linkname |-> linkname, content |-> content]

\* The archives a restore may be given: what createArchive wrote for an
\* earlier content of the path, and archives of another origin sealed under
\* the same key.
RestoredArchives ==
    {<<Header(Dot, "dir", "", ""), Header(<<"a">>, "reg", "", "v2")>>,
     <<Header(Dot, "dir", "", ""), Header(<<"a">>, "dir", "", ""),
       Header(<<"a", "b">>, "reg", "", "v2")>>,
     <<Header(Dot, "dir", "", ""), Header(<<"b">>, "reg", "", "v2"),
       Header(<<"a", "a">>, "reg", "", "v2")>>,
     <<Header(<<"b">>, "reg", "", "v2"), Header(<<"a">>, "cont", "", "")>>,
     <<Header(<<"a">>, "symlink", "..", ""), Header(<<"a", "b">>, "reg", "", "v2")>>,
     <<Header(<<"..", "x">>, "reg", "", "v2")>>,
     <<Header(<<"a", "..", "..", "x">>, "dir", "", "")>>,
     <<Header(<<"b">>, "link", "../s", "")>>,
     <<Header(<<"a">>, "fifo", "", "")>>}

\* RestoreBackup has the archive and calls extractArchive(.., service.Path).
RB_ExtractCall ==
    /\ CanStart
    /\ ops' = ops + 1
    /\ opKind' = "archive"
    /\ svcName' = <<"app">>
    /\ fsBefore' = fs
    /\ destTree' = fs[<<"app">>]
    /\ excludePatterns' = <<>>
    /\ archiveData' \in RestoredArchives
    /\ pc' = "ar_created"
    /\ err' = "nil"
    /\ result' = "pending"
    /\ UNCHANGED <<Lifecycle, Backends, Runtime, fs, now, backupName, encrypted, localFile,
                   deferStart, quiesced, handlerErr, calls, selected, source, CleanupLocals,
                   exclude, cryptoLog, daemon, workers>>

InitExtract ==
    /\ \E t \in Destinations : fs = [s \in Services |-> t]
    /\ fsBefore = fs
    /\ exclude = [s \in Services |-> <<>>]
    /\ InitIdle

NextExtract ==
    \/ RB_ExtractCall
    \/ extractArchive

SpecExtract == InitExtract /\ [][NextExtract]_vars

----------------------------------------------------------------------------
\* What extractArchive found under the service path.
Before == fsBefore[<<"app">>]

\* The paths the entries of the archive name, under destPath.
Named == {Join(archiveData[i].name) : i \in DOMAIN archiveData}

\* The directories above a path.
Above(path) == {SubSeq(path, 1, k) : k \in 1..(Len(path) - 1)} \cup {Dot}

\* The path lies outside destPath.
IsOutside(path) == Head(path) = ".."

\* An extraction into the service path has returned.
Extracted == Returned("archive") /\ svcName = <<"app">>

\* C37: extraction creates or overwrites only the paths the entries name and
\* their missing parent directories; whatever else exists under the
\* destination is left as it was.
C37_ExtractionFrame ==
    Extracted =>
        /\ \A p \in DOMAIN Before \ Named :
              p \in DOMAIN destTree /\ destTree[p] = Before[p]
        /\ \A p \in DOMAIN destTree \ DOMAIN Before :
              \E n \in Named : p = n \/ p \in Above(n)

\* C38: extraction creates, overwrites or removes only paths under the
\* destination root.
C38_ExtractionStaysInside ==
    Extracted =>
        \A p \in DOMAIN destTree \cup DOMAIN Before :
            IsOutside(p) =>
                /\ p \in DOMAIN destTree
                /\ p \in DOMAIN Before
                /\ destTree[p] = Before[p]

----------------------------------------------------------------------------
\* Termination of handleDockerContainer.

\* The positions inside handleDockerContainer.
HandlerPcs == {"h_stop_req", "h_start_req", "h_start_inspect"} \cup PollPcs

\* A poll loop takes the case of the timer: time.After(2 * time.Minute) has
\* fired and the select finds its channel ready.
TimerFires ==
    /\ pc \in PollPcs
    /\ H_StopPoll \/ H_HealthPoll \/ H_RunPoll
    /\ handlerErr' \in {"stop_timeout", "start_timeout"}

\* A backup and a restore of the service that is bound to a container.
NextLive ==
    \/ CreateBackup(<<"app">>)
    \/ CB_PreBackup
    \/ CB_Docker
    \/ CB_Archive
    \/ CB_Encrypt
    \/ CB_Stage
    \/ CB_UploadSynology
    \/ CB_UploadS3
    \/ RestoreBackup(<<"app">>, Artifact)
    \/ RB_Mkdir
    \/ RB_DownloadSynology
    \/ RB_DownloadS3
    \/ RB_Read
    \/ RB_Decrypt
    \/ RB_Docker
    \/ RB_Extract
    \/ Handler

\* Every call of the container runtime returns, and the timer fires.
SpecLive ==
    /\ InitManager
    /\ [][NextLive]_vars
    /\ WF_vars(H_StopRequest)
    /\ WF_vars(H_StartRequest)
    /\ WF_vars(H_StartInspect)
    /\ WF_vars(TimerFires)

\* C39: every call of handleDockerContainer returns, with success, a fatal
\* error or the timeout error, whatever the runtime reports: no poll loop
\* runs forever.
C39_HandlerReturns == (pc \in HandlerPcs) ~> (pc \notin HandlerPcs)

\* A resume returned the timeout after it had polled a container that never
\* came up.
C39_Witness ==
    /\ pc = "finish"
    /\ handlerErr = "start_timeout"
    /\ lastInspect # NoInspect
    /\ lastInspect.at = "h_run_poll"
    /\ ~lastInspect.running

----------------------------------------------------------------------------
\* The daemon (pkg/daemon/daemon.go) and the daemon command
\* (cmd/packrat/daemon.go), with one cron job at a time.

\* service.Schedule != "": "app" has a schedule, "app-db" has none.
Scheduled(s) == s = <<"app">>

\* What the daemon's steps leave alone.
OutsideDaemon ==
    <<Lifecycle, Backends, Runtime, fs, now, pc, opKind, Locals, deferStart,
      quiesced, err, result, handlerErr, calls, ops, RestoreLocals, CleanupLocals,
      exclude, excludePatterns, destTree, cryptoLog, workers>>

\* Daemon.Start: the jobs of the services that have a schedule are added
\* and the scheduler is started.
D_Start ==
    /\ daemon.cron = "new"
    /\ ~cancelled
    /\ daemon' = [daemon EXCEPT !.cron = "running"]
    /\ UNCHANGED OutsideDaemon

\* The scheduler fires the job of a service: the closure starts.
D_Fire(s) ==
    /\ daemon.cron = "running"
    /\ ~cancelled
    /\ Scheduled(s)
    /\ daemon.job.phase \in {"none", "ended"}
    /\ ops < MaxOps
    /\ daemon' = [daemon EXCEPT !.job = [svc |-> s, phase |-> "backup", at |-> ops],
                               !.log = Append(@, [svc |-> s, event |-> "start"])]
    /\ UNCHANGED OutsideDaemon

\* d.manager.CreateBackup(serviceName)
D_CallBackup ==
    /\ daemon.job.phase = "backup"
    /\ ops = daemon.job.at
    /\ CreateBackup(daemon.job.svc)

\* Variant of D_BackupReturned: the cleanup follows a failed backup as well.
D_BackupReturned_CleanupAlways ==
    /\ daemon.job.phase = "backup"
    /\ ops = daemon.job.at + 1
    /\ Returned("backup")
    /\ daemon' = [daemon EXCEPT
                     !.job.phase = "cleanup",
                     !.log = Append(@, [svc |-> daemon.job.svc,
                                        event |-> IF result = "nil" THEN "backup_ok"
                                                  ELSE "backup_error"])]
    /\ UNCHANGED OutsideDaemon

\* if err := CreateBackup(..); err != nil { log; return }
D_BackupReturned ==
    /\ daemon.job.phase = "backup"
    /\ ops = daemon.job.at + 1
    /\ Returned("backup")
    /\ daemon' = [daemon EXCEPT
                     !.job.phase = IF result = "nil" THEN "cleanup" ELSE "ended",
                     !.log = Append(@, [svc |-> daemon.job.svc,
                                        event |-> IF result = "nil" THEN "backup_ok"
                                                  ELSE "backup_error"])]
    /\ UNCHANGED OutsideDaemon

\* d.manager.CleanupBackups(serviceName)
D_CallCleanup ==
    /\ daemon.job.phase = "cleanup"
    /\ ops = daemon.job.at + 1
    /\ CleanupBackups(daemon.job.svc)

\* if err != nil { log; return }; the closure ends.
D_CleanupReturned ==
    /\ daemon.job.phase = "cleanup"
    /\ ops = daemon.job.at + 2
    /\ Returned("cleanup")
    /\ daemon' = [daemon EXCEPT
                     !.job.phase = "ended",
                     !.log = Append(@, [svc |-> daemon.job.svc,
                                        event |-> IF result = "nil" THEN "cleanup_ok"
                                                  ELSE "cleanup_error"])]
    /\ UNCHANGED OutsideDaemon

\* The cron job is between its start and its end.
JobExecuting == daemon.job.phase \in {"backup", "cleanup"}

\* Daemon.Stop after d.cancel(): <-d.cron.Stop().Done() returns when no job
\* is running; d.wg.Wait() has nothing to wait for.
D_StopReturns ==
    /\ cancelled
    /\ ~daemon.stopReturned
    /\ ~JobExecuting
    /\ daemon' = [daemon EXCEPT !.stopReturned = TRUE, !.cron = "stopped"]
    /\ UNCHANGED OutsideDaemon

\* Daemon.Run: <-d.ctx.Done() returns.
D_RunReturns ==
    /\ daemon.cron # "new"
    /\ cancelled
    /\ ~daemon.runReturned
    /\ daemon' = [daemon EXCEPT !.runReturned = TRUE]
    /\ UNCHANGED OutsideDaemon

\* RunE returns: the deferred manager.Close() runs.
D_Close ==
    /\ daemon.runReturned
    /\ ~daemon.closed
    /\ daemon' = [daemon EXCEPT !.closed = TRUE]
    /\ UNCHANGED OutsideDaemon

NextScheduler ==
    \/ D_Start
    \/ \E s \in Services : D_Fire(s)
    \/ D_CallBackup
    \/ D_BackupReturned
    \/ D_CallCleanup
    \/ D_CleanupReturned
    \/ Daemon_Stop
    \/ D_StopReturns
    \/ D_RunReturns
    \/ D_Close
    \/ CB_PreBackup
    \/ CB_Docker
    \/ CB_Archive
    \/ CB_Encrypt
    \/ CB_Stage
    \/ CB_UploadSynology
    \/ CB_UploadS3
    \/ CL_NextService
    \/ CL_ListSynology
    \/ CL_DeleteSynology
    \/ CL_ListS3
    \/ CL_DeleteS3
    \/ Handler

SpecScheduler == InitManager /\ [][NextScheduler]_vars

\* C32: while a scheduled job is executing, Run has not returned and the
\* manager's storage sessions are not closed; Stop returns only when no job
\* is executing.
C32_ShutdownWaitsForJobs ==
    JobExecuting =>
        /\ ~daemon.stopReturned
        /\ ~daemon.runReturned
        /\ ~daemon.closed

\* The events the jobs have logged.
Logged(event) == {i \in DOMAIN daemon.log : daemon.log[i].event = event}

----------------------------------------------------------------------------
\* Operations that run at the same time: the scheduler starts every firing
\* of a job in a goroutine of its own, and the commands of the CLI are
\* processes of their own.  Each operation is CreateBackup or RestoreBackup
\* for the service bound to the container, from the quiesce on.

OutsideWorkers ==
    <<Lifecycle, Backends, health, fs, now, pc, opKind, Locals, deferStart,
      quiesced, err, result, handlerErr, calls, RestoreLocals, CleanupLocals,
      exclude, excludePatterns, destTree, cryptoLog, daemon>>

Moves(w, to) == workers' = [workers EXCEPT ![w].pc = to]

\* An operation starts and comes to handleDockerContainer(.., true).
W_Begin(w, kind) ==
    /\ workers[w].pc \in {"idle", "done"}
    /\ ops < MaxOps
    /\ ops' = ops + 1
    /\ workers' = [workers EXCEPT ![w] = [kind |-> kind, svc |-> <<"app">>, pc |-> "stop"]]
    /\ UNCHANGED <<OutsideWorkers, ctr>>

\* m.dockerCli.ContainerStop: accepted, or refused with an error.
W_StopRequest(w) ==
    /\ workers[w].pc = "stop"
    /\ \/ /\ ctr' = "stopped"
          /\ Moves(w, "stop_poll")
       \/ /\ Moves(w, "done")
          /\ UNCHANGED ctr
    /\ UNCHANGED <<OutsideWorkers, ops>>

\* The loop that waits for the container to stop: it ends when an
\* inspection reports that the container is not running, or with the
\* timeout or an inspection error.
W_StopPoll(w) ==
    /\ workers[w].pc = "stop_poll"
    /\ \/ /\ ~Running
          /\ Moves(w, "work")
       \/ Moves(w, "done")
    /\ UNCHANGED <<OutsideWorkers, ctr, ops>>

\* createArchive or extractArchive on the service path has run to its end;
\* the deferred resume is next, whatever the steps after it return.
W_Work(w) ==
    /\ workers[w].pc = "work"
    /\ Moves(w, "resume")
    /\ UNCHANGED <<OutsideWorkers, ctr, ops>>

\* The deferred handleDockerContainer(.., false): ContainerStart, accepted or
\* refused.
W_Resume(w) ==
    /\ workers[w].pc = "resume"
    /\ ctr' \in {"running", ctr}
    /\ Moves(w, "done")
    /\ UNCHANGED <<OutsideWorkers, ops>>

NextConcurrent ==
    \E w \in Workers :
        \/ \E kind \in {"backup", "restore"} : W_Begin(w, kind)
        \/ W_StopRequest(w)
        \/ W_StopPoll(w)
        \/ W_Work(w)
        \/ W_Resume(w)

SpecConcurrent == InitManager /\ [][NextConcurrent]_vars

\* C31: the bound container is not running while an operation is building
\* its archive from the service path or extracting into it.
C31_QuiescedWhileWorking ==
    \A w \in Workers : workers[w].pc = "work" => ~Running

====
